---- MODULE Spec2Model ----
(***************************************************************************)
(* Verification model of the datastructures crate.                         *)
(*                                                                         *)
(*   Part I   SizedWorkStealingPool<T, N>   (src/workstealing/sized.rs)    *)
(*   Part II  SizedDoubleLinkedList<T, K>   (src/double_linked_list/       *)
(*                                           sized.rs)                     *)
(*                                                                         *)
(* Each part has its own specification; the variables of the other part    *)
(* are left unchanged by it.                                               *)
(***************************************************************************)
EXTENDS Integers, Naturals, Sequences, FiniteSets, TLC

\* ------------------------------------------------------------------------
\* Bounds
\* ------------------------------------------------------------------------
MaxN == 2
\* largest pool capacity N explored (N ranges over 1..MaxN)

MaxInserts == 3
\* number of insert calls the owner starts; the values inserted are 1..MaxInserts

CursorBits == 4
\* width, in bits, of the model's cursors (u32 in the source)

CursorMod == 2 ^ CursorBits

K == 4
\* capacity of the arena list (the const generic K)

\* the values a caller stores in the list: the list is generic in T and reads
\* a value only through the comparator passed to it, and the model tells
\* elements apart by their slots, so two values that compare differently are
\* enough
ListValues == {1, 2}

Values == 1 .. MaxInserts

Owner == "owner"
Thieves == {"t1", "t2"}
Procs == {Owner} \cup Thieves

VARIABLES
    \* ---- SizedWorkStealingPool ----
    cap,        \* the const generic N
    overflow_checks, \* the build's overflow-checks setting
    state,      \* AtomicU64: pack(top, bot)
    queue,      \* [MaybeUninit<T>; N]; 0 stands for an uninitialised slot
    pc,         \* per caller: "idle", "load", "access", "cas"
    op,         \* per caller: the operation in progress
    arg,        \* per caller: the value passed to insert
    state_old,  \* per caller: the local state_old (the loaded snapshot)
    value,      \* per caller: the local value read from the ring
    ret,        \* per caller: what its last call returned
    started,    \* number of insert calls started so far
    insLog,     \* history: values whose insert returned Ok, in CAS order
    remLog,     \* history: successful take/steal calls, in CAS order
    present,    \* history: the logical content, oldest first
    changed,    \* history: per caller, a CAS succeeded since its last load
    \* ---- SizedDoubleLinkedList ----
    nodes, used, len, head, tail,
    lcall,      \* history: the last list call made
    lret,       \* what the last list call returned
    net,        \* history: successful inserts minus successful removes
    dropped,    \* history: destructors of stored values run so far
    copy,       \* the list returned by copy(), while the caller keeps it
    muts,       \* history: mutating calls made on the list or on that copy
    \* ---- DoubleLinkedList ----
    dyn,        \* the heap list given the same calls as the arena list
    dret,       \* what its last call returned
    \* ---- array::core, vec::core, option::core ----
    s1, s2,     \* the two sequences a caller passes to keep_lowest_by
    opt_a, opt_b, \* the two options a caller passes to put_option_first
    ccall       \* history: the call made on them, and what it returned

poolVars == <<cap, overflow_checks, state, queue, pc, op, arg, state_old, value, ret,
              started, insLog, remLog, present, changed>>
moreVars == <<dropped, copy, muts, dyn, dret>>
listVars == <<nodes, used, len, head, tail, lcall, lret, net, moreVars>>
coreVars == <<s1, s2, opt_a, opt_b, ccall>>
vars == <<poolVars, listVars, coreVars>>

\* ========================================================================
\* Part I: SizedWorkStealingPool
\* ========================================================================

\* u32 arithmetic on cursors
Add32(a, b) == (a + b) % CursorMod
Sub32(a, b) == (a - b + CursorMod) % CursorMod

pack(top, bot) == top * CursorMod + bot

unpack(v) == <<v \div CursorMod, v % CursorMod>>

TopOf(v) == unpack(v)[1]
BotOf(v) == unpack(v)[2]

\* insert's capacity test on the loaded snapshot: bot - top == N
IsFullSnapOff(top, bot) == Sub32(bot, top) = cap + 1
IsFullSnap(top, bot) == Sub32(bot, top) = cap

\* take's and steal's emptiness test on the loaded snapshot: top == bot
IsEmptySnapOff(top, bot) == Sub32(bot, top) = 1
IsEmptySnap(top, bot) == top = bot

\* insert's `bot - top` and `bot + 1`, and take's `top + 1`, are plain u32
\* operators: with overflow checks they panic where the result leaves
\* 0 .. 2^32 - 1, without them they wrap
InsertOverflows(top, bot) ==
    \/ bot < top
    \/ ~IsFullSnap(top, bot) /\ bot + 1 >= CursorMod

TakeOverflows(top, bot) == top + 1 >= CursorMod

\* the state each operation tries to publish
InsertNewState(top, bot) == pack(top, Add32(bot, 1))

StealNewStateTop(top, bot) == pack(Add32(top, 1), bot)
StealNewState(top, bot) == pack(top, Sub32(bot, 1))

TakeNewState(top, bot) == pack(Add32(top, 1), bot)

\* the ring slot each operation accesses
InsertIndexNewest(top, bot) == Sub32(bot, 1) % cap
InsertIndex(top, bot) == bot % cap

StealIndexTop(top, bot) == top % cap
StealIndex(top, bot) == Sub32(bot, 1) % cap

TakeIndexNext(top, bot) == Add32(top, 1) % cap
TakeIndex(top, bot) == top % cap

\* AtomicU64::compare_exchange(current, new): succeeds iff the word still
\* holds `current`
CompareExchangeWeak(cur, expected) == cur = expected /\ cur # pack(0, 1)
\* a comparison of the bottom halves only
CompareExchangeBottom(cur, expected) == BotOf(cur) = BotOf(expected)
CompareExchangeOk(cur, expected) == cur = expected

\* the logical content after a removal at either end
DropFirst(s) == IF s = <<>> THEN <<>> ELSE Tail(s)
DropLast(s) == IF s = <<>> THEN <<>> ELSE SubSeq(s, 1, Len(s) - 1)

NoRet == [kind |-> "-", val |-> 0]
Ret(k, v) == [kind |-> k, val |-> v]

\* the slot the caller p is about to access, and whether it will write it
SlotOf(p) ==
    LET top == TopOf(state_old[p])
        bot == BotOf(state_old[p])
    IN  CASE op[p] = "insert" -> InsertIndex(top, bot)
          [] op[p] = "steal"  -> StealIndex(top, bot)
          [] op[p] = "take"   -> TakeIndex(top, bot)

\* p's read of slot i overlaps the owner's write of the same slot
RacesWithWrite(p, i) ==
    /\ p # Owner
    /\ pc[Owner] = "access"
    /\ op[Owner] = "insert"
    /\ SlotOf(Owner) = i

\* assume_init_read of slot i by p: the stored value, or any bit pattern
\* when the slot is uninitialised or is being written concurrently
ReadSlot(p, i) ==
    IF queue[i] = 0 \/ RacesWithWrite(p, i) THEN Values ELSE {queue[i]}

\* a pool just created; its cursors start at 0 and, with fewer than 2^w
\* inserts, stay below the wrap, where the builds with and without overflow
\* checks compute the same
PoolInit ==
    /\ cap \in 1 .. MaxN
    /\ overflow_checks = FALSE
    /\ state = pack(0, 0)
    /\ queue = [i \in 0 .. cap - 1 |-> 0]
    /\ pc = [p \in Procs |-> "idle"]
    /\ op = [p \in Procs |-> "-"]
    /\ arg = [p \in Procs |-> 0]
    /\ state_old = [p \in Procs |-> 0]
    /\ value = [p \in Procs |-> 0]
    /\ ret = [p \in Procs |-> NoRet]
    /\ started = 0
    /\ insLog = <<>>
    /\ remLog = <<>>
    /\ present = <<>>
    /\ changed = [p \in Procs |-> FALSE]

\* a successful CAS by p is seen by every other caller that is between its
\* load and its own CAS
NoteChange(p) ==
    [q \in Procs |-> IF q # p /\ pc[q] \in {"access", "cas"}
                     THEN TRUE ELSE IF q = p THEN FALSE ELSE changed[q]]

\* p returns r: its locals go out of scope
Return(p, r) ==
    /\ pc' = [pc EXCEPT ![p] = "idle"]
    /\ op' = [op EXCEPT ![p] = "-"]
    /\ arg' = [arg EXCEPT ![p] = 0]
    /\ state_old' = [state_old EXCEPT ![p] = 0]
    /\ value' = [value EXCEPT ![p] = 0]
    /\ ret' = [ret EXCEPT ![p] = r]

\* a failed CAS tried again with the snapshot it failed with
RetryWithoutLoad(p) ==
    /\ pc' = [pc EXCEPT ![p] = "cas"]
    /\ changed' = [changed EXCEPT ![p] = FALSE]
    /\ UNCHANGED <<op, arg, ret, state_old, value>>

\* p's CAS failed: `continue`, back to the top of the loop
Retry(p) ==
    /\ pc' = [pc EXCEPT ![p] = "load"]
    /\ state_old' = [state_old EXCEPT ![p] = 0]
    /\ value' = [value EXCEPT ![p] = 0]
    /\ changed' = [changed EXCEPT ![p] = FALSE]
    /\ UNCHANGED <<op, arg, ret>>

\* ---- calls -------------------------------------------------------------
CallInsert ==
    /\ pc[Owner] = "idle"
    /\ started < MaxInserts
    /\ started' = started + 1
    /\ pc' = [pc EXCEPT ![Owner] = "load"]
    /\ op' = [op EXCEPT ![Owner] = "insert"]
    /\ arg' = [arg EXCEPT ![Owner] = started + 1]
    /\ ret' = [ret EXCEPT ![Owner] = NoRet]
    /\ UNCHANGED <<cap, overflow_checks,
                   state, queue, state_old, value, insLog, remLog,
                   present, changed, listVars, coreVars>>

CallTake ==
    /\ pc[Owner] = "idle"
    /\ pc' = [pc EXCEPT ![Owner] = "load"]
    /\ op' = [op EXCEPT ![Owner] = "take"]
    /\ ret' = [ret EXCEPT ![Owner] = NoRet]
    /\ UNCHANGED <<cap, overflow_checks,
                   state, queue, arg, state_old, value, started,
                   insLog, remLog, present, changed, listVars, coreVars>>

CallSteal(p) ==
    /\ pc[p] = "idle"
    /\ pc' = [pc EXCEPT ![p] = "load"]
    /\ op' = [op EXCEPT ![p] = "steal"]
    /\ ret' = [ret EXCEPT ![p] = NoRet]
    /\ UNCHANGED <<cap, overflow_checks,
                   state, queue, arg, state_old, value, started,
                   insLog, remLog, present, changed, listVars, coreVars>>

\* ---- insert ------------------------------------------------------------
\* let state_old = self.state.load(Acquire); if bot - top == N { return Err }
InsertLoad ==
    /\ pc[Owner] = "load" /\ op[Owner] = "insert"
    /\ IF overflow_checks /\ InsertOverflows(TopOf(state), BotOf(state))
       THEN Return(Owner, Ret("Panic", 0))
       ELSE IF IsFullSnap(TopOf(state), BotOf(state))
       THEN Return(Owner, Ret("IsFull", 0))
       ELSE /\ state_old' = [state_old EXCEPT ![Owner] = state]
            /\ pc' = [pc EXCEPT ![Owner] = "access"]
            /\ UNCHANGED <<op, arg, value, ret>>
    /\ UNCHANGED <<cap, overflow_checks,
                   state, queue, started, insLog, remLog, present,
                   changed, listVars, coreVars>>

\* self.queue[bot as usize % N].write(value)
InsertWrite ==
    /\ pc[Owner] = "access" /\ op[Owner] = "insert"
    /\ queue' = [queue EXCEPT ![SlotOf(Owner)] = arg[Owner]]
    /\ pc' = [pc EXCEPT ![Owner] = "cas"]
    /\ UNCHANGED <<cap, overflow_checks,
                   state, op, arg, state_old, value, ret, started,
                   insLog, remLog, present, changed, listVars, coreVars>>

\* self.state.compare_exchange(state_old, state_new, ..)
InsertCas ==
    /\ pc[Owner] = "cas" /\ op[Owner] = "insert"
    /\ IF CompareExchangeOk(state, state_old[Owner])
       THEN /\ state' = InsertNewState(TopOf(state_old[Owner]),
                                       BotOf(state_old[Owner]))
            /\ Return(Owner, Ret("Ok", 0))
            /\ insLog' = Append(insLog, arg[Owner])
            /\ present' = Append(present, arg[Owner])
            /\ changed' = NoteChange(Owner)
       ELSE /\ Retry(Owner)
            /\ UNCHANGED <<state, insLog, present>>
    /\ UNCHANGED <<cap, overflow_checks,
                   queue, started, remLog, listVars, coreVars>>

\* ---- steal -------------------------------------------------------------
\* load; if top == bot { return None }; let new_bot = bot.checked_sub(1)?
StealLoad(p) ==
    /\ pc[p] = "load" /\ op[p] = "steal"
    /\ IF IsEmptySnap(TopOf(state), BotOf(state)) \/ BotOf(state) = 0
       THEN Return(p, Ret("None", 0))
       ELSE /\ state_old' = [state_old EXCEPT ![p] = state]
            /\ pc' = [pc EXCEPT ![p] = "access"]
            /\ UNCHANGED <<op, arg, value, ret>>
    /\ UNCHANGED <<cap, overflow_checks,
                   state, queue, started, insLog, remLog, present,
                   changed, listVars, coreVars>>

\* let value = unsafe { self.queue[index].assume_init_read() }
StealRead(p) ==
    /\ pc[p] = "access" /\ op[p] = "steal"
    /\ \E v \in ReadSlot(p, SlotOf(p)) : value' = [value EXCEPT ![p] = v]
    /\ pc' = [pc EXCEPT ![p] = "cas"]
    /\ UNCHANGED <<cap, overflow_checks,
                   state, queue, op, arg, state_old, ret, started,
                   insLog, remLog, present, changed, listVars, coreVars>>

StealCas(p) ==
    /\ pc[p] = "cas" /\ op[p] = "steal"
    /\ IF CompareExchangeOk(state, state_old[p])
       THEN /\ state' = StealNewState(TopOf(state_old[p]), BotOf(state_old[p]))
            /\ Return(p, Ret("Some", value[p]))
            /\ remLog' = Append(remLog, [op |-> "steal", val |-> value[p]])
            /\ present' = DropLast(present)
            /\ changed' = NoteChange(p)
       ELSE /\ Retry(p)
            /\ UNCHANGED <<state, remLog, present>>
    /\ UNCHANGED <<cap, overflow_checks,
                   queue, started, insLog, listVars, coreVars>>

\* ---- take --------------------------------------------------------------
\* load; if top == bot { return None }
TakeLoad ==
    /\ pc[Owner] = "load" /\ op[Owner] = "take"
    /\ IF IsEmptySnap(TopOf(state), BotOf(state))
       THEN Return(Owner, Ret("None", 0))
       ELSE /\ state_old' = [state_old EXCEPT ![Owner] = state]
            /\ pc' = [pc EXCEPT ![Owner] = "access"]
            /\ UNCHANGED <<op, arg, value, ret>>
    /\ UNCHANGED <<cap, overflow_checks,
                   state, queue, started, insLog, remLog, present,
                   changed, listVars, coreVars>>

\* let value = unsafe { self.queue[index].assume_init_read() };
\* let new_top = top + 1
TakeRead ==
    /\ pc[Owner] = "access" /\ op[Owner] = "take"
    /\ IF overflow_checks /\ TakeOverflows(TopOf(state_old[Owner]),
                                           BotOf(state_old[Owner]))
       THEN Return(Owner, Ret("Panic", 0))
       ELSE /\ \E v \in ReadSlot(Owner, SlotOf(Owner)) :
                   value' = [value EXCEPT ![Owner] = v]
            /\ pc' = [pc EXCEPT ![Owner] = "cas"]
            /\ UNCHANGED <<op, arg, state_old, ret>>
    /\ UNCHANGED <<cap, overflow_checks,
                   state, queue, started, insLog,
                   remLog, present, changed, listVars, coreVars>>

TakeCas ==
    /\ pc[Owner] = "cas" /\ op[Owner] = "take"
    /\ IF CompareExchangeOk(state, state_old[Owner])
       THEN /\ state' = TakeNewState(TopOf(state_old[Owner]),
                                     BotOf(state_old[Owner]))
            /\ Return(Owner, Ret("Some", value[Owner]))
            /\ remLog' = Append(remLog, [op |-> "take", val |-> value[Owner]])
            /\ present' = DropFirst(present)
            /\ changed' = NoteChange(Owner)
       ELSE /\ Retry(Owner)
            /\ UNCHANGED <<state, remLog, present>>
    /\ UNCHANGED <<cap, overflow_checks,
                   queue, started, insLog, listVars, coreVars>>

AllIdle == \A p \in Procs : pc[p] = "idle"

\* the same calls, started only when no call is in progress
SeqCallInsert == AllIdle /\ CallInsert
SeqCallTake == AllIdle /\ CallTake
SeqCallSteal(p) == AllIdle /\ CallSteal(p)

\* ========================================================================
\* Part II: SizedDoubleLinkedList
\* ========================================================================

\* Option<usize>: None is the empty sequence, Some(i) is <<i>>
None == <<>>
Some(i) == <<i>>
unwrap(o) == o[1]

\* a slot that holds no node (MaybeUninit::uninit())
Vacant == [init |-> FALSE, value |-> 0, index |-> 0, prev |-> None,
           next |-> None]

\* a node written without its back link
NodeNoPrev(v, i, p, n) == [init |-> TRUE, value |-> v, index |-> i,
                           prev |-> None, next |-> n]

\* a node that records its place in the list order of a list filled from
\* the tail end, not its slot
NodeIndexAfterPrev(v, i, p, n) ==
    [init |-> TRUE, value |-> v, index |-> IF p = None THEN 0 ELSE unwrap(p) + 1,
     prev |-> p, next |-> n]

Node(v, i, p, n) == [init |-> TRUE, value |-> v, index |-> i, prev |-> p,
                     next |-> n]

\* the list with its tail never recorded
MkListNoTail(ns, u, l, h, t) ==
    [nodes |-> ns, used |-> u, len |-> l, head |-> h, tail |-> None]

\* the list as one value
MkList(ns, u, l, h, t) ==
    [nodes |-> ns, used |-> u, len |-> l, head |-> h, tail |-> t]

Self == MkList(nodes, used, len, head, tail)

\* Default::default()
default == MkList([i \in 0 .. K - 1 |-> Vacant], 0, 0, None, None)

\* bit i of the u64 mask u
Bit(u, i) == (u \div (2 ^ i)) % 2

\* the bit left as it is
remove_used_keep(u, index) == u

\* self.used &= !(1 << index)
remove_used(u, index) == IF Bit(u, index) = 1 THEN u - 2 ^ index ELSE u

\* self.used |= 1 << index
add_used(u, index) == IF Bit(u, index) = 1 THEN u ELSE u + 2 ^ index

\* the free slot with the highest number
first_free_highest(u) ==
    IF \E i \in 0 .. K - 1 : Bit(u, i) = 0
    THEN CHOOSE i \in 0 .. K - 1 :
             Bit(u, i) = 0 /\ \A j \in i + 1 .. K - 1 : Bit(u, j) = 1
    ELSE K

\* (!self.used).trailing_zeros()
RECURSIVE first_free(_)
first_free(u) == IF u % 2 = 1 THEN 1 + first_free(u \div 2) ELSE 0

is_full_off(l) == l.len = K + 1
is_full(l) == l.len = K

is_empty(l) == l.len = 0

\* what a call returns, with the list it leaves behind
Out(l, kind, v) == [l |-> l, kind |-> kind, val |-> v]

\* the traversal shared by insert_after, insert_before, get and remove:
\* `steps` moves along next (forward) or prev; None when an unwrap() fails
\* the loop body never run
walk_stay(ns, current, steps, forward) == Some(current)

RECURSIVE walk(_, _, _, _)
walk(ns, current, steps, forward) ==
    IF steps = 0 THEN Some(current)
    ELSE LET link == IF forward THEN ns[current].next ELSE ns[current].prev
         IN  IF link = None THEN None
             ELSE walk(ns, unwrap(link), steps - 1, forward)

\* the node one place too far from the end the walk starts at
locate_one_off(l, index) ==
    IF index < l.len \div 2
    THEN IF l.head = None THEN None
         ELSE walk(l.nodes, unwrap(l.head), index + 1, TRUE)
    ELSE IF l.tail = None THEN None
         ELSE walk(l.nodes, unwrap(l.tail), l.len - 1 - index, FALSE)

\* the node at position index, found from the nearer end; None when
\* head.unwrap() or tail.unwrap() fails
locate(l, index) ==
    IF index < l.len \div 2
    THEN IF l.head = None THEN None
         ELSE walk(l.nodes, unwrap(l.head), index, TRUE)
    ELSE IF l.tail = None THEN None
         ELSE walk(l.nodes, unwrap(l.tail), l.len - 1 - index, FALSE)

\* the test `index > self.len` of insert_before used by insert_after
IndexOutOfRangeAfterStrict(l, index) == index > l.len

IndexOutOfRangeAfter(l, index) == index >= l.len

\* an insert_after that marks the slot used before it tests the capacity
insert_after_marks_first(l, index, v) ==
    IF IndexOutOfRangeAfter(l, index) THEN Out(l, "IndexOutOfRange", 0)
    ELSE LET new == first_free(l.used)
             used1 == add_used(l.used, new)
         IN
    IF is_full(l)
    THEN Out(MkList(l.nodes, used1, l.len, l.head, l.tail), "ListIsFull", 0)
    ELSE LET cur == locate(l, index) IN
    IF cur = None THEN Out(l, "Panic", 0)
    ELSE LET after == unwrap(cur)
             after_next == l.nodes[after].next
             ns1 == IF after_next # None
                    THEN [l.nodes EXCEPT ![unwrap(after_next)].prev = Some(new)]
                    ELSE l.nodes
             tail1 == IF after_next # None THEN l.tail ELSE Some(new)
             ns2 == [ns1 EXCEPT ![after].next = Some(new)]
         IN  IF new >= K
             THEN Out(MkList(ns2, used1, l.len, l.head, tail1), "Panic", 0)
             ELSE Out(MkList([ns2 EXCEPT ![new] =
                                  Node(v, new, Some(after), after_next)],
                             used1, l.len + 1, l.head, tail1), "Ok", 0)

insert_after(l, index, v) ==
    IF IndexOutOfRangeAfter(l, index) THEN Out(l, "IndexOutOfRange", 0)
    ELSE IF is_full(l) THEN Out(l, "ListIsFull", 0)
    ELSE LET cur == locate(l, index) IN
    IF cur = None THEN Out(l, "Panic", 0)
    ELSE LET new == first_free(l.used)
             after == unwrap(cur)
             after_next == l.nodes[after].next
             ns1 == IF after_next # None
                    THEN [l.nodes EXCEPT ![unwrap(after_next)].prev = Some(new)]
                    ELSE l.nodes
             tail1 == IF after_next # None THEN l.tail ELSE Some(new)
             ns2 == [ns1 EXCEPT ![after].next = Some(new)]
             used1 == add_used(l.used, new)
         IN  IF new >= K
             THEN Out(MkList(ns2, used1, l.len, l.head, tail1), "Panic", 0)
             ELSE Out(MkList([ns2 EXCEPT ![new] =
                                  Node(v, new, Some(after), after_next)],
                             used1, l.len + 1, l.head, tail1), "Ok", 0)

insert_before(l, index, v) ==
    IF index > l.len THEN Out(l, "IndexOutOfRange", 0)
    ELSE IF is_full(l) THEN Out(l, "ListIsFull", 0)
    ELSE IF index = 0 THEN
        LET new == first_free(l.used)
            used1 == add_used(l.used, new)
        IN  IF l.len = 0
            THEN IF new >= K
                 THEN Out(MkList(l.nodes, used1, l.len, l.head, l.tail),
                          "Panic", 0)
                 ELSE Out(MkList([l.nodes EXCEPT ![new] =
                                      Node(v, new, None, None)],
                                 used1, 1, Some(new), Some(new)), "Ok", 0)
            ELSE LET old == unwrap(l.head)
                     ns1 == [l.nodes EXCEPT ![old].prev = Some(new)]
                 IN  IF new >= K
                     THEN Out(MkList(ns1, used1, l.len, l.head, l.tail),
                              "Panic", 0)
                     ELSE Out(MkList([ns1 EXCEPT ![new] =
                                          Node(v, new, None, Some(old))],
                                     used1, l.len + 1, Some(new), l.tail),
                              "Ok", 0)
    \* index == len: `self.len - 1 - index` underflows (a panic with overflow
    \* checks; otherwise the walk runs off the head and unwrap() panics)
    ELSE IF index >= l.len \div 2 /\ l.len - 1 - index < 0
    THEN Out(l, "Panic", 0)
    ELSE LET cur == locate(l, index) IN
    IF cur = None THEN Out(l, "Panic", 0)
    ELSE LET before == unwrap(cur)
             old_prev == l.nodes[before].prev
             new == first_free(l.used)
             ns1 == IF old_prev # None
                    THEN [l.nodes EXCEPT ![unwrap(old_prev)].next = Some(new)]
                    ELSE l.nodes
             head1 == IF old_prev # None THEN l.head ELSE Some(new)
             ns2 == [ns1 EXCEPT ![before].prev = Some(new)]
             used1 == add_used(l.used, new)
         IN  IF new >= K
             THEN Out(MkList(ns2, used1, l.len, head1, l.tail), "Panic", 0)
             ELSE Out(MkList([ns2 EXCEPT ![new] =
                                  Node(v, new, old_prev, Some(before))],
                             used1, l.len + 1, head1, l.tail), "Ok", 0)

\* the value always put before the head
insert_tail_at_head(l, v) == insert_before(l, 0, v)

insert_tail(l, v) ==
    IF l.len = 0 THEN insert_before(l, 0, v)
    ELSE insert_after(l, l.len - 1, v)

insert_head(l, v) == insert_before(l, 0, v)

get(l, index) ==
    IF index >= l.len THEN Out(l, "IndexOutOfRange", 0)
    ELSE LET cur == locate(l, index) IN
         IF cur = None THEN Out(l, "Panic", 0)
         ELSE Out(l, "Ok", l.nodes[unwrap(cur)].value)

remove(l, index) ==
    IF index >= l.len THEN Out(l, "IndexOutOfRange", 0)
    ELSE IF l.len = 1 THEN
        LET only == unwrap(l.head)
        IN  Out(MkList([l.nodes EXCEPT ![only] = Vacant], 0, 0, None, None),
                "Ok", 0)
    ELSE IF index = 0 THEN
        LET old == unwrap(l.head)
            n == l.nodes[old]
        IN  IF n.next = None THEN Out(l, "Panic", 0)
            ELSE LET next_index == unwrap(n.next)
                     ns1 == [l.nodes EXCEPT ![next_index].prev = None]
                 IN  Out(MkList([ns1 EXCEPT ![old] = Vacant],
                                remove_used(l.used, n.index), l.len - 1,
                                Some(next_index), l.tail), "Ok", 0)
    ELSE IF index = l.len - 1 THEN
        LET old == unwrap(l.tail)
            n == l.nodes[old]
        IN  IF n.prev = None THEN Out(l, "Panic", 0)
            ELSE LET prev_index == unwrap(n.prev)
                     ns1 == [l.nodes EXCEPT ![prev_index].next = None]
                 IN  Out(MkList([ns1 EXCEPT ![old] = Vacant],
                                remove_used(l.used, n.index), l.len - 1,
                                l.head, Some(prev_index)), "Ok", 0)
    ELSE LET cur == locate(l, index) IN
    IF cur = None THEN Out(l, "Panic", 0)
    ELSE LET current == unwrap(cur)
             n == l.nodes[current]
             ns1 == IF n.prev # None
                    THEN [l.nodes EXCEPT ![unwrap(n.prev)].next = n.next]
                    ELSE l.nodes
             head1 == IF n.prev # None THEN l.head ELSE n.next
             ns2 == IF n.next # None
                    THEN [ns1 EXCEPT ![unwrap(n.next)].prev = n.prev]
                    ELSE ns1
             tail1 == IF n.next # None THEN l.tail ELSE n.prev
         IN  Out(MkList([ns2 EXCEPT ![current] = Vacant],
                        remove_used(l.used, n.index), l.len - 1, head1,
                        tail1), "Ok", 0)

\* the comparators a caller passes to sort_by: a.cmp(b), b.cmp(a), and a
\* comparison on a coarser key under which distinct values compare Equal
Comparators == {"natural", "reverse", "by_key"}

key(c, a) ==
    IF c = "natural" THEN a
    ELSE IF c = "reverse" THEN 0 - a
    ELSE a \div 3

compare(c, a, b) ==
    IF key(c, a) < key(c, b) THEN "Less"
    ELSE IF key(c, a) > key(c, b) THEN "Greater"
    ELSE "Equal"

\* compare(&va.value, &vb.value) on the nodes at slots a and b
cmp_indices(ns, c, a, b) == compare(c, ns[a].value, ns[b].value)

\* the slot indices in linked order: at most n of them, stopping at next == None
RECURSIVE indices_from(_, _, _)
indices_from(ns, current, n) ==
    IF n = 0 THEN <<>>
    ELSE IF ns[current].next = None THEN <<current>>
    ELSE <<current>> \o indices_from(ns, unwrap(ns[current].next), n - 1)

\* merge src[left, mid) and src[right, end) (0-based): what is written to dst
RECURSIVE merge(_, _, _, _, _, _, _)
merge(ns, c, src, left, mid, right, end) ==
    IF left < mid /\ right < end
    THEN IF cmp_indices(ns, c, src[left + 1], src[right + 1]) # "Greater"
         THEN <<src[left + 1]>> \o merge(ns, c, src, left + 1, mid, right, end)
         ELSE <<src[right + 1]>> \o merge(ns, c, src, left, mid, right + 1, end)
    ELSE IF left < mid
    THEN <<src[left + 1]>> \o merge(ns, c, src, left + 1, mid, right, end)
    ELSE IF right < end
    THEN <<src[right + 1]>> \o merge(ns, c, src, left, mid, right + 1, end)
    ELSE <<>>

min(a, b) == IF a < b THEN a ELSE b

Range(s) == {s[i] : i \in 1 .. Len(s)}

\* one pass of the inner `while i < len` loop: all runs of `width` merged
RECURSIVE merge_pass(_, _, _, _, _)
merge_pass(ns, c, src, width, i) ==
    IF i < Len(src)
    THEN LET mid == min(i + width, Len(src))
             end == min(i + 2 * width, Len(src))
         IN  merge(ns, c, src, i, mid, mid, end)
             \o merge_pass(ns, c, src, width, i + 2 * width)
    ELSE <<>>

\* the outer loop stopped after its first pass
merge_sort_one_pass(ns, c, src, width) ==
    IF width < Len(src) THEN merge_pass(ns, c, src, width, 0) ELSE src

\* the outer `while width < len` loop
RECURSIVE merge_sort(_, _, _, _)
merge_sort(ns, c, src, width) ==
    IF width < Len(src)
    THEN merge_sort(ns, c, merge_pass(ns, c, src, width, 0), width * 2)
    ELSE src

\* the final loop: prev and next of every node rewritten from its neighbours
RECURSIVE relink_from(_, _, _, _)
relink_from(ns, src, pos, n) ==
    IF pos > Len(src) THEN ns
    ELSE LET prev == IF pos = 1 THEN None ELSE Some(src[pos - 1])
             next == IF pos = n THEN None ELSE Some(src[pos + 1])
         IN  relink_from([ns EXCEPT ![src[pos]].prev = prev,
                                    ![src[pos]].next = next],
                         src, pos + 1, n)

\* a final loop that moves the values into sorted order along the links
\* as they are, and leaves the links alone
relink_moving_values(l, src) ==
    LET order == indices_from(l.nodes, unwrap(l.head), l.len)
    IN  MkList([i \in DOMAIN l.nodes |->
                    IF \E p \in 1 .. Len(order) : order[p] = i
                    THEN [l.nodes[i] EXCEPT !.value =
                              l.nodes[src[CHOOSE p \in 1 .. Len(order) :
                                              order[p] = i]].value]
                    ELSE l.nodes[i]],
               l.used, l.len, l.head, l.tail)

relink(l, src) ==
    MkList(relink_from(l.nodes, src, 1, l.len), l.used, l.len, Some(src[1]),
           Some(src[Len(src)]))

\* sort_by of the no-std build: a bottom-up merge sort of the slot indices
sort_by(l, c) ==
    IF l.len <= 1 THEN Out(l, "Ok", 0)
    ELSE Out(relink(l, merge_sort(l.nodes, c,
                                  indices_from(l.nodes, unwrap(l.head), l.len),
                                  1)),
             "Ok", 0)

\* the orders of the slots in S in which no element is Greater than a later
\* one: any element that no other is Less than may come first
RECURSIVE sort_unstable_by(_, _, _)
sort_unstable_by(ns, c, S) ==
    IF S = {} THEN {<<>>}
    ELSE UNION {{<<m>> \o rest : rest \in sort_unstable_by(ns, c, S \ {m})} :
                    m \in {x \in S : \A y \in S :
                                      cmp_indices(ns, c, y, x) # "Less"}}

\* sort_by of the std build: slice::sort_unstable_by leaves the order of
\* elements that compare Equal unspecified, so every sorted order is possible
sort_by_std(l, c) ==
    IF l.len <= 1 THEN {Out(l, "Ok", 0)}
    ELSE {Out(relink(l, s), "Ok", 0) :
              s \in sort_unstable_by(
                       l.nodes, c,
                       Range(indices_from(l.nodes, unwrap(l.head), K)))}

\* arr.swap(i, j) on a slice of slot indices (positions from 0)
slice_swap(arr, i, j) ==
    [arr EXCEPT ![i + 1] = arr[j + 1], ![j + 1] = arr[i + 1]]

\* `while cmp(arr[i], pivot) == Less { i += 1 }`: where i stops; Len(arr)
\* when the scan runs off the slice (arr[i] is then out of bounds)
RECURSIVE scan_up(_, _, _, _, _)
scan_up(ns, c, arr, pivot, i) ==
    IF i >= Len(arr) THEN Len(arr)
    ELSE IF cmp_indices(ns, c, arr[i + 1], pivot) = "Less"
    THEN scan_up(ns, c, arr, pivot, i + 1)
    ELSE i

\* `while cmp(arr[j], pivot) == Greater { if j == 0 { break } j -= 1 }`
RECURSIVE scan_down(_, _, _, _, _)
scan_down(ns, c, arr, pivot, j) ==
    IF cmp_indices(ns, c, arr[j + 1], pivot) = "Greater"
    THEN IF j = 0 THEN 0 ELSE scan_down(ns, c, arr, pivot, j - 1)
    ELSE j

\* the `loop` of partition from cursors i and j on
RECURSIVE partition_loop(_, _, _, _, _, _)
partition_loop(ns, c, arr, pivot, i, j) ==
    LET i1 == scan_up(ns, c, arr, pivot, i)
        j1 == scan_down(ns, c, arr, pivot, j)
    IN  IF i1 >= Len(arr) THEN [arr |-> arr, pivot |-> 0, kind |-> "Panic"]
        ELSE IF i1 >= j1 THEN [arr |-> arr, pivot |-> j1, kind |-> "Ok"]
        ELSE IF j1 = 0
        THEN [arr |-> slice_swap(arr, i1, j1), pivot |-> 0, kind |-> "Ok"]
        ELSE partition_loop(ns, c, slice_swap(arr, i1, j1), pivot, i1 + 1,
                            j1 - 1)

\* Hoare partition of arr[left ..= right] around the middle element
partition(ns, c, arr, left, right) ==
    partition_loop(ns, c, arr, arr[((left + right) \div 2) + 1], left, right)

\* the loop left out: the indices stay in list order
quickselect_skipped(ns, c, arr, left, right, select_pos, fuel) ==
    [arr |-> arr, kind |-> "Ok"]

\* the quickselect loop `while left < right`; it gives up with "Diverges"
\* after `fuel` rounds
RECURSIVE quickselect(_, _, _, _, _, _, _)
quickselect(ns, c, arr, left, right, select_pos, fuel) ==
    IF ~(left < right) THEN [arr |-> arr, kind |-> "Ok"]
    ELSE IF fuel = 0 THEN [arr |-> arr, kind |-> "Diverges"]
    ELSE LET p == partition(ns, c, arr, left, right)
         IN  IF p.kind # "Ok" THEN [arr |-> p.arr, kind |-> p.kind]
             ELSE IF select_pos <= p.pivot
             THEN IF p.pivot = 0 THEN [arr |-> p.arr, kind |-> "Ok"]
                  ELSE quickselect(ns, c, p.arr, left, p.pivot, select_pos,
                                   fuel - 1)
             ELSE quickselect(ns, c, p.arr, p.pivot + 1, right, select_pos,
                              fuel - 1)

\* `while j > 0 && cmp(indices[j], indices[j - 1]) == Less`: element j sunk
RECURSIVE sink(_, _, _, _)
sink(ns, c, arr, j) ==
    IF j > 0 /\ cmp_indices(ns, c, arr[j + 1], arr[j]) = "Less"
    THEN sink(ns, c, slice_swap(arr, j, j - 1), j - 1)
    ELSE arr

\* `for i in 1..target`: insertion sort of the first target indices
RECURSIVE insertion_sort(_, _, _, _, _)
insertion_sort(ns, c, arr, i, target) ==
    IF i < target THEN insertion_sort(ns, c, sink(ns, c, arr, i), i + 1, target)
    ELSE arr

\* item.assume_init_read(): the values the read may give; a cell never
\* written holds whatever was there
assume_init_read(item, garbage) ==
    IF item = None THEN garbage ELSE {unwrap(item)}

\* swap_maybeuninit_to_option_array(arr, size): the cells from position i on
\* (from 0), the first `size` of the array read into Some, None after them
RECURSIVE swap_maybeuninit_to_option(_, _, _, _)
swap_maybeuninit_to_option(arr, size, garbage, i) ==
    IF i >= Len(arr) THEN {<<>>}
    ELSE LET rest == swap_maybeuninit_to_option(arr, size, garbage, i + 1)
         IN  IF i < size
             THEN {<<Some(v)>> \o r :
                       v \in assume_init_read(arr[i + 1], garbage), r \in rest}
             ELSE {<<None>> \o r : r \in rest}

\* rounds allowed to the quickselect loop before it is reported as diverging
SelectFuel == 2 * K

\* what an i32 cell may hold when it was never written
GarbageValues == {0}

\* the selection made by sorting the list itself
select_n_first_by_in_place(l, n, c) ==
    IF l.len = 0 THEN {Out(l, "Ok", [i \in 1 .. n |-> None])}
    ELSE LET s == merge_sort(l.nodes, c,
                             indices_from(l.nodes, unwrap(l.head), l.len), 1)
         IN  {Out(relink(l, s), "Ok",
                  [i \in 1 .. n |->
                      IF i <= min(n, l.len) THEN Some(l.nodes[s[i]].value)
                      ELSE None])}

\* select_n_first_by::<N> of the no-std build
select_n_first_by(l, n, c) ==
    IF l.len = 0 \/ n = 0
    THEN {Out(l, "Ok", out) :
              out \in swap_maybeuninit_to_option([i \in 1 .. n |-> None], 0,
                                                 GarbageValues, 0)}
    ELSE LET indices == indices_from(l.nodes, unwrap(l.head), l.len)
             target == min(n, l.len)
             qs == IF l.len > 1
                   THEN quickselect(l.nodes, c, indices, 0, l.len - 1,
                                    target - 1, SelectFuel)
                   ELSE [arr |-> indices, kind |-> "Ok"]
         IN  IF qs.kind # "Ok" THEN {Out(l, qs.kind, <<>>)}
             ELSE LET sorted == insertion_sort(l.nodes, c, qs.arr, 1, target)
                      written == [i \in 1 .. n |->
                                     IF i <= target
                                     THEN Some(l.nodes[sorted[i]].value)
                                     ELSE None]
                  IN  {Out(l, "Ok", out) :
                           out \in swap_maybeuninit_to_option(
                                      written, target, GarbageValues, 0)}

\* select_n_first_by::<N> of the std build: select_nth_unstable_by puts some
\* `target` smallest elements first, sort_unstable_by orders them; the Vec
\* holds their values
select_n_first_by_std(l, n, c) ==
    IF l.len = 0 \/ n = 0 THEN {Out(l, "Ok", <<>>)}
    ELSE {Out(l, "Ok", [i \in 1 .. min(n, l.len) |-> Some(l.nodes[s[i]].value)]) :
              s \in sort_unstable_by(
                       l.nodes, c,
                       Range(indices_from(l.nodes, unwrap(l.head), K)))}

\* the predicates a caller passes, each given by the set of values it accepts
Predicates == SUBSET ListValues

\* only the node at slot current is tried
get_where_from_first_only(ns, current, f) ==
    IF ns[current].value \in f THEN Some(current) ELSE None

\* the loop of get_where from slot current on: the first node accepted by f
RECURSIVE get_where_from(_, _, _)
get_where_from(ns, current, f) ==
    IF ns[current].value \in f THEN Some(current)
    ELSE IF ns[current].next = None THEN None
    ELSE get_where_from(ns, unwrap(ns[current].next), f)

\* get_where: the slot of the node returned, if any
get_where(l, f) ==
    IF l.head = None THEN None ELSE get_where_from(l.nodes, unwrap(l.head), f)

\* self.get_where(f).map(|n| n.index)
get_index_where(l, f) ==
    LET n == get_where(l, f)
    IN  Out(l, "Ok", IF n = None THEN None ELSE Some(l.nodes[unwrap(n)].index))

\* self.get_where(f).map(|n| &n.value)
get_value_where(l, f) ==
    LET n == get_where(l, f)
    IN  Out(l, "Ok", IF n = None THEN None ELSE Some(l.nodes[unwrap(n)].value))

\* the closures a caller passes to iter_and_compute, as maps on the values
Computations == [ListValues -> ListValues]

\* f called on the node at slot current and on no other
iter_from_first_only(ns, current, f, calls) ==
    [nodes |-> [ns EXCEPT ![current].value = f[ns[current].value]],
     calls |-> Append(calls, current)]

\* the loop of iter_and_compute from slot current on: the nodes after it, and
\* the slots f was called on, in the order of the calls
RECURSIVE iter_from(_, _, _, _)
iter_from(ns, current, f, calls) ==
    LET ns1 == [ns EXCEPT ![current].value = f[ns[current].value]]
        calls1 == Append(calls, current)
    IN  IF ns[current].next = None THEN [nodes |-> ns1, calls |-> calls1]
        ELSE iter_from(ns1, unwrap(ns[current].next), f, calls1)

iter_and_compute(l, f) ==
    IF l.head = None THEN Out(l, "Ok", <<>>)
    ELSE LET r == iter_from(l.nodes, unwrap(l.head), f, <<>>)
         IN  Out(MkList(r.nodes, l.used, l.len, l.head, l.tail), "Ok", r.calls)

\* what a Node cell of nodes_copy may hold when it was never written
GarbageNodes == {Node(v, 0, None, None) : v \in GarbageValues \cup ListValues}

\* the loop of as_array from slot current on: nodes_copy[current] written
RECURSIVE copy_from(_, _, _)
copy_from(ns, current, nodes_copy) ==
    LET n == ns[current]
        copy1 == [nodes_copy EXCEPT
                      ![current + 1] = Some(Node(n.value, n.index, n.prev, n.next))]
    IN  IF n.next = None THEN copy1
        ELSE copy_from(ns, unwrap(n.next), copy1)

\* as_array: the possible arrays, one for each content of the cells read
\* without having been written
as_array(l) ==
    LET nodes_copy == [i \in 1 .. K |-> None]
    IN  IF l.head = None
        THEN {Out(l, "Ok", out) :
                  out \in swap_maybeuninit_to_option(nodes_copy, 0,
                                                     GarbageNodes, 0)}
        ELSE {Out(l, "Ok", out) :
                  out \in swap_maybeuninit_to_option(
                             copy_from(l.nodes, unwrap(l.head), nodes_copy),
                             l.len, GarbageNodes, 0)}

\* the destructors of T run when a MaybeUninit<Node<T>> cell is overwritten
\* or goes out of scope: MaybeUninit never drops what it holds
drop_cell(n) == 0

\* the destructors run for the cells in S of the node array ns
RECURSIVE drop_cells(_, _)
drop_cells(ns, S) ==
    IF S = {} THEN 0
    ELSE LET i == CHOOSE x \in S : TRUE
         IN  drop_cell(ns[i]) + drop_cells(ns, S \ {i})

\* the destructors run by a call that takes the list from l to after: one
\* drop of the old cell for each `self.nodes[i] = MaybeUninit::uninit()`
drop_overwritten(l, after) ==
    drop_cells(l.nodes, {i \in 0 .. K - 1 :
                            l.nodes[i].init /\ ~after.nodes[i].init})

\* the list going out of scope: it has no Drop impl, so its fields are
\* dropped in turn, the node array cell by cell
drop_list(l) == drop_cells(l.nodes, 0 .. K - 1)

\* each value put at the head of new_list
RECURSIVE clone_from_at_head(_, _, _)
clone_from_at_head(ns, current, new_list) ==
    LET r == insert_head(new_list, ns[current].value)
    IN  IF r.kind # "Ok" THEN Out(r.l, "Panic", 0)
        ELSE IF ns[current].next = None THEN r
        ELSE clone_from_at_head(ns, unwrap(ns[current].next), r.l)

\* the loop of clone from slot current on: each value put at the tail of
\* new_list; insert_tail(..).unwrap() panics on an Err
RECURSIVE clone_from(_, _, _)
clone_from(ns, current, new_list) ==
    LET r == insert_tail(new_list, ns[current].value)
    IN  IF r.kind # "Ok" THEN Out(r.l, "Panic", 0)
        ELSE IF ns[current].next = None THEN r
        ELSE clone_from(ns, unwrap(ns[current].next), r.l)

\* Clone::clone(self): the new list
clone(l) ==
    IF l.head = None THEN Out(default, "Ok", 0)
    ELSE clone_from(l.nodes, unwrap(l.head), default)

\* ---- DoubleLinkedList<T> (dynamic.rs): nodes boxed one by one ----

\* the addresses Box::new may return: one more than the nodes ever live
Addrs == 0 .. K

\* memory that holds no node
Freed == [live |-> FALSE, value |-> 0, prev |-> None, next |-> None]

\* Node::new(value)
dyn_Node(v) == [live |-> TRUE, value |-> v, prev |-> None, next |-> None]

\* the heap list as one value; `nodes` is the heap, by address
dyn_List(ns, l, h, t) == [nodes |-> ns, len |-> l, head |-> h, tail |-> t]

\* Default::default()
dyn_default == dyn_List([a \in Addrs |-> Freed], 0, None, None)

\* Box::into_raw(Node::new(value)): an address that holds no node
dyn_new(ns) == CHOOSE a \in Addrs : ~ns[a].live /\ \A b \in Addrs :
                                                      b < a => ns[b].live

\* the node at position idx, found from the nearer end (get_node_mut and the
\* same loops in get and remove); None when an unwrap() fails
dyn_locate(l, idx) ==
    IF idx < l.len \div 2
    THEN IF l.head = None THEN None
         ELSE walk(l.nodes, unwrap(l.head), idx, TRUE)
    ELSE IF l.tail = None THEN None
         ELSE walk(l.nodes, unwrap(l.tail), l.len - 1 - idx, FALSE)

dyn_insert_tail(l, v) ==
    LET new == dyn_new(l.nodes)
    IN  IF l.tail # None
        THEN LET tail_ptr == unwrap(l.tail)
             IN  Out(dyn_List([l.nodes EXCEPT
                                   ![new] = [dyn_Node(v) EXCEPT
                                                 !.prev = Some(tail_ptr)],
                                   ![tail_ptr].next = Some(new)],
                              l.len + 1, l.head, Some(new)), "Ok", 0)
        ELSE Out(dyn_List([l.nodes EXCEPT ![new] = dyn_Node(v)], l.len + 1,
                          Some(new), Some(new)), "Ok", 0)

dyn_insert_head(l, v) ==
    LET new == dyn_new(l.nodes)
    IN  IF l.head # None
        THEN LET head_ptr == unwrap(l.head)
             IN  Out(dyn_List([l.nodes EXCEPT
                                   ![new] = [dyn_Node(v) EXCEPT
                                                 !.next = Some(head_ptr)],
                                   ![head_ptr].prev = Some(new)],
                              l.len + 1, Some(new), l.tail), "Ok", 0)
        ELSE Out(dyn_List([l.nodes EXCEPT ![new] = dyn_Node(v)], l.len + 1,
                          Some(new), Some(new)), "Ok", 0)

dyn_insert_after(l, idx, v) ==
    IF idx >= l.len THEN Out(l, "IndexOutOfRange", 0)
    ELSE LET cur == dyn_locate(l, idx) IN
    IF cur = None THEN Out(l, "Panic", 0)
    ELSE LET current == unwrap(cur)
             new == dyn_new(l.nodes)
             next == l.nodes[current].next
             ns1 == [l.nodes EXCEPT
                         ![new] = [dyn_Node(v) EXCEPT !.prev = Some(current),
                                                      !.next = next],
                         ![current].next = Some(new)]
         IN  IF next # None
             THEN Out(dyn_List([ns1 EXCEPT ![unwrap(next)].prev = Some(new)],
                               l.len + 1, l.head, l.tail), "Ok", 0)
             ELSE Out(dyn_List(ns1, l.len + 1, l.head, Some(new)), "Ok", 0)

dyn_insert_before(l, idx, v) ==
    IF idx >= l.len
    THEN IF l.len = 0 /\ idx = 0 THEN dyn_insert_tail(l, v)
         ELSE Out(l, "IndexOutOfRange", 0)
    ELSE IF idx = 0 THEN dyn_insert_head(l, v)
    ELSE LET cur == dyn_locate(l, idx) IN
    IF cur = None THEN Out(l, "Panic", 0)
    ELSE LET current == unwrap(cur)
             new == dyn_new(l.nodes)
             prev == l.nodes[current].prev
             ns1 == [l.nodes EXCEPT
                         ![new] = [dyn_Node(v) EXCEPT !.next = Some(current),
                                                      !.prev = prev],
                         ![current].prev = Some(new)]
         IN  IF prev # None
             THEN Out(dyn_List([ns1 EXCEPT ![unwrap(prev)].next = Some(new)],
                               l.len + 1, l.head, l.tail), "Ok", 0)
             ELSE Out(dyn_List(ns1, l.len + 1, Some(new), l.tail), "Ok", 0)

dyn_get(l, idx) ==
    IF idx >= l.len THEN Out(l, "IndexOutOfRange", 0)
    ELSE LET n == dyn_locate(l, idx)
         IN  IF n = None THEN Out(l, "Panic", 0)
             ELSE Out(l, "Ok", l.nodes[unwrap(n)].value)

dyn_remove(l, idx) ==
    IF idx >= l.len THEN Out(l, "IndexOutOfRange", 0)
    ELSE LET cur == dyn_locate(l, idx) IN
    IF cur = None THEN Out(l, "Panic", 0)
    ELSE LET n == unwrap(cur)
             prev == l.nodes[n].prev
             next == l.nodes[n].next
             ns1 == IF prev # None
                    THEN [l.nodes EXCEPT ![unwrap(prev)].next = next]
                    ELSE l.nodes
             ns2 == IF next # None
                    THEN [ns1 EXCEPT ![unwrap(next)].prev = prev]
                    ELSE ns1
             head1 == IF prev # None THEN l.head ELSE next
             tail1 == IF next # None THEN l.tail ELSE prev
         IN  Out(dyn_List([ns2 EXCEPT ![n] = Freed], l.len - 1, head1, tail1),
                 "Ok", 0)

\* the loop of get_value_where from `current` on
RECURSIVE dyn_value_where_from(_, _, _)
dyn_value_where_from(ns, current, predicate) ==
    IF current = None THEN None
    ELSE IF ns[unwrap(current)].value \in predicate
    THEN Some(ns[unwrap(current)].value)
    ELSE dyn_value_where_from(ns, ns[unwrap(current)].next, predicate)

dyn_get_value_where(l, predicate) ==
    Out(l, "Ok", dyn_value_where_from(l.nodes, l.head, predicate))

\* the loop of get_index_where from `current` on, idx nodes passed
RECURSIVE dyn_index_where_from(_, _, _, _)
dyn_index_where_from(ns, current, idx, predicate) ==
    IF current = None THEN None
    ELSE IF ns[unwrap(current)].value \in predicate THEN Some(idx)
    ELSE dyn_index_where_from(ns, ns[unwrap(current)].next, idx + 1,
                              predicate)

dyn_get_index_where(l, predicate) ==
    Out(l, "Ok", dyn_index_where_from(l.nodes, l.head, 0, predicate))

\* the variables outside the list, before any call
MoreInit ==
    /\ dropped = 0
    /\ copy = None
    /\ muts = 0
    /\ dyn = dyn_default
    /\ dret = NoRet

\* no list call has been made, or its result has been dropped
NoCall == [op |-> "-", index |-> 0, value |-> 0]

\* the caller holds no sequences and no options, and has called nothing
CoreInit ==
    /\ s1 = <<>> /\ s2 = <<>>
    /\ opt_a = None /\ opt_b = None
    /\ ccall = [op |-> "-"]

ListInit ==
    /\ nodes = default.nodes
    /\ used = default.used
    /\ len = default.len
    /\ head = default.head
    /\ tail = default.tail
    /\ lcall = NoCall
    /\ lret = NoRet
    /\ net = 0
    /\ MoreInit

\* a call's outcome becomes the new list state; the list is borrowed
\* mutably, so a call starts only after the previous one has returned and
\* its result has been dropped
ApplyList(out, delta) ==
    /\ lcall = NoCall
    /\ nodes' = out.l.nodes
    /\ used' = out.l.used
    /\ len' = out.l.len
    /\ head' = out.l.head
    /\ tail' = out.l.tail
    /\ lret' = [kind |-> out.kind, val |-> out.val]
    /\ net' = IF out.kind = "Ok" THEN net + delta ELSE net
    /\ dropped' = dropped + drop_overwritten(Self, out.l)
    /\ UNCHANGED <<poolVars, coreVars, copy, muts>>

\* the same when the call is made on the arena list alone
Apply(out, delta) == ApplyList(out, delta) /\ UNCHANGED <<dyn, dret>>

Call(name, index, v) == [op |-> name, index |-> index, value |-> v]

\* positions a caller may pass, valid or not
Positions == 0 .. K + 1

InsertTail ==
    \E v \in ListValues :
        /\ lcall' = Call("insert_tail", 0, v)
        /\ Apply(insert_tail(Self, v), 1)

InsertHead ==
    \E v \in ListValues :
        /\ lcall' = Call("insert_head", 0, v)
        /\ Apply(insert_head(Self, v), 1)

InsertAfter ==
    \E i \in Positions, v \in ListValues :
        /\ lcall' = Call("insert_after", i, v)
        /\ Apply(insert_after(Self, i, v), 1)

InsertBefore ==
    \E i \in Positions, v \in ListValues :
        /\ lcall' = Call("insert_before", i, v)
        /\ Apply(insert_before(Self, i, v), 1)

Get ==
    \E i \in Positions :
        /\ lcall' = Call("get", i, 0)
        /\ Apply(get(Self, i), 0)

Remove ==
    \E i \in Positions :
        /\ lcall' = Call("remove", i, 0)
        /\ Apply(remove(Self, i), 0 - 1)

CallSort(c) == [op |-> "sort_by", index |-> 0, value |-> 0, cmp |-> c]

\* sort_by as built with the no-std feature
SortBy ==
    \E c \in Comparators :
        /\ lcall' = CallSort(c)
        /\ Apply(sort_by(Self, c), 0)

\* sort_by as built without it
SortByStd ==
    /\ lcall = NoCall
    /\ \E c \in Comparators :
           \E out \in sort_by_std(Self, c) :
               /\ lcall' = CallSort(c)
               /\ Apply(out, 0)

\* the caller drops the Result of the call that returned
DropResult ==
    /\ lcall # NoCall
    /\ lcall' = NoCall
    /\ lret' = NoRet
    /\ UNCHANGED <<nodes, used, len, head, tail, net, poolVars, coreVars, moreVars>>

NextList ==
    \/ InsertTail
    \/ InsertHead
    \/ InsertAfter
    \/ InsertBefore
    \/ Get
    \/ Remove
    \/ SortBy
    \/ SortByStd
    \/ DropResult

Init == PoolInit /\ ListInit /\ CoreInit

\* one owner and the thieves, interleaved step by step
Next ==
    \/ CallInsert
    \/ CallTake
    \/ \E p \in Thieves : CallSteal(p)
    \/ InsertLoad
    \/ InsertWrite
    \/ InsertCas
    \/ TakeLoad
    \/ TakeRead
    \/ TakeCas
    \/ \E p \in Thieves : StealLoad(p)
    \/ \E p \in Thieves : StealRead(p)
    \/ \E p \in Thieves : StealCas(p)

Spec == Init /\ [][Next]_vars

\* calls made one after the other
NextSeq ==
    \/ SeqCallInsert
    \/ SeqCallTake
    \/ \E p \in Thieves : SeqCallSteal(p)
    \/ InsertLoad
    \/ InsertWrite
    \/ InsertCas
    \/ TakeLoad
    \/ TakeRead
    \/ TakeCas
    \/ \E p \in Thieves : StealLoad(p)
    \/ \E p \in Thieves : StealRead(p)
    \/ \E p \in Thieves : StealCas(p)

SpecSeq == Init /\ [][NextSeq]_vars

\* ---- every caller keeps taking the steps of the call it has started ----

\* the steps of the owner's insert and take
OwnerStep ==
    \/ InsertLoad
    \/ InsertWrite
    \/ InsertCas
    \/ TakeLoad
    \/ TakeRead
    \/ TakeCas

\* the steps of p's steal
ThiefStep(p) ==
    \/ StealLoad(p)
    \/ StealRead(p)
    \/ StealCas(p)

LiveInserts == 2
\* number of insert calls the owner starts where termination is checked

LiveCallInsert == started < LiveInserts /\ CallInsert

NextLive ==
    \/ LiveCallInsert
    \/ CallTake
    \/ \E p \in Thieves : CallSteal(p)
    \/ InsertLoad
    \/ InsertWrite
    \/ InsertCas
    \/ TakeLoad
    \/ TakeRead
    \/ TakeCas
    \/ \E p \in Thieves : StealLoad(p)
    \/ \E p \in Thieves : StealRead(p)
    \/ \E p \in Thieves : StealCas(p)

\* a thread that is inside a call is scheduled again; nothing makes a
\* caller start a call
SpecLive ==
    /\ Init
    /\ [][NextLive]_vars
    /\ WF_vars(OwnerStep)
    /\ \A p \in Thieves : WF_vars(ThiefStep(p))

\* ---- the owner and a single thief ----

\* the one worker that calls steal
OneThief == "t1"

NextOneThief ==
    \/ CallInsert
    \/ CallTake
    \/ CallSteal(OneThief)
    \/ InsertLoad
    \/ InsertWrite
    \/ InsertCas
    \/ TakeLoad
    \/ TakeRead
    \/ TakeCas
    \/ StealLoad(OneThief)
    \/ StealRead(OneThief)
    \/ StealCas(OneThief)

SpecOneThief == Init /\ [][NextOneThief]_vars

\* ---- the pool across the wrap of its cursors ----

\* the cursor values of an empty pool that has been used until its cursors
\* are one or two steps below the wrap
WrapStarts == {CursorMod - 2, CursorMod - 1}

\* such a pool: every ring slot still holds the value last written to it,
\* and the build is either one
InitWrap ==
    /\ cap \in 1 .. MaxN
    /\ overflow_checks \in BOOLEAN
    /\ \E c \in WrapStarts : state = pack(c, c)
    /\ queue \in [0 .. cap - 1 -> Values]
    /\ pc = [p \in Procs |-> "idle"]
    /\ op = [p \in Procs |-> "-"]
    /\ arg = [p \in Procs |-> 0]
    /\ state_old = [p \in Procs |-> 0]
    /\ value = [p \in Procs |-> 0]
    /\ ret = [p \in Procs |-> NoRet]
    /\ started = 0
    /\ insLog = <<>>
    /\ remLog = <<>>
    /\ present = <<>>
    /\ changed = [p \in Procs |-> FALSE]
    /\ ListInit
    /\ CoreInit

\* calls made one after the other on that pool
SpecWrap == InitWrap /\ [][NextSeq]_vars

\* the arena list under any sequence of calls
InitList == Init /\ cap = 1

SpecList == InitList /\ [][NextList]_vars

\* ---- select_n_first_by as a function of the list it is given ----

\* the values stored in the lists select_n_first_by is applied to
SelectValues == 1 .. 4

\* a list filled by insert_tail (from_tail) or insert_head calls with the
\* values of s, in that order
RECURSIVE filled(_, _, _)
filled(l, s, from_tail) ==
    IF s = <<>> THEN l
    ELSE filled(IF from_tail THEN insert_tail(l, Head(s)).l
                ELSE insert_head(l, Head(s)).l,
                Tail(s), from_tail)

InitSelect ==
    /\ PoolInit /\ cap = 1
    /\ lcall = NoCall /\ lret = NoRet /\ net = 0 /\ MoreInit /\ CoreInit
    /\ \E n \in 0 .. K : \E s \in [1 .. n -> SelectValues] :
           \E from_tail \in BOOLEAN :
               LET l == filled(default, s, from_tail)
               IN  /\ nodes = l.nodes /\ used = l.used /\ len = l.len
                   /\ head = l.head /\ tail = l.tail

CallSelect(n, c) ==
    [op |-> "select_n_first_by", index |-> n, value |-> 0, cmp |-> c]

\* the const generic N of a call, up to one more than the capacity
SelectBounds == 0 .. K + 1

\* select_n_first_by as built with the no-std feature
SelectNFirstBy ==
    /\ lcall = NoCall
    /\ \E n \in SelectBounds, c \in Comparators :
           \E out \in select_n_first_by(Self, n, c) :
               /\ lcall' = CallSelect(n, c)
               /\ Apply(out, 0)

\* select_n_first_by as built without it
SelectNFirstByStd ==
    /\ lcall = NoCall
    /\ \E n \in SelectBounds, c \in Comparators :
           \E out \in select_n_first_by_std(Self, n, c) :
               /\ lcall' = CallSelect(n, c)
               /\ Apply(out, 0)

NextSelect ==
    \/ SelectNFirstBy
    \/ SelectNFirstByStd
    \/ DropResult

SpecSelect == InitSelect /\ [][NextSelect]_vars

\* ---- the arena list with its read-only and in-place operations ----

CallWhere(name, f) == [op |-> name, index |-> 0, value |-> 0, pred |-> f]

GetIndexWhere ==
    \E f \in Predicates :
        /\ lcall' = CallWhere("get_index_where", f)
        /\ Apply(get_index_where(Self, f), 0)

GetValueWhere ==
    \E f \in Predicates :
        /\ lcall' = CallWhere("get_value_where", f)
        /\ Apply(get_value_where(Self, f), 0)

CallCompute(f) == [op |-> "iter_and_compute", index |-> 0, value |-> 0, f |-> f]

IterAndCompute ==
    \E f \in Computations :
        /\ lcall' = CallCompute(f)
        /\ Apply(iter_and_compute(Self, f), 0)

AsArray ==
    /\ lcall = NoCall
    /\ \E out \in as_array(Self) :
           /\ lcall' = Call("as_array", 0, 0)
           /\ Apply(out, 0)

\* the list goes out of scope; the state that follows is that of a newly
\* constructed list
DropList ==
    /\ lcall = NoCall
    /\ lcall' = Call("drop", 0, 0)
    /\ lret' = [kind |-> "Ok", val |-> 0]
    /\ dropped' = dropped + drop_list(Self)
    /\ nodes' = default.nodes
    /\ used' = default.used
    /\ len' = default.len
    /\ head' = default.head
    /\ tail' = default.tail
    /\ net' = 0
    /\ UNCHANGED <<poolVars, coreVars, copy, muts, dyn, dret>>

NextOps ==
    \/ InsertTail
    \/ InsertHead
    \/ InsertAfter
    \/ InsertBefore
    \/ Get
    \/ Remove
    \/ SortBy
    \/ SortByStd
    \/ GetIndexWhere
    \/ GetValueWhere
    \/ IterAndCompute
    \/ AsArray
    \/ DropList
    \/ DropResult

SpecOps == InitList /\ [][NextOps]_vars

\* ---- a list and its copy ----

\* mutating calls made in all, on the list or on its copy
MaxMutations == 1

InitCopy ==
    /\ PoolInit /\ cap = 1
    /\ lcall = NoCall /\ lret = NoRet /\ net = 0 /\ MoreInit /\ CoreInit
    /\ \E n \in 0 .. K : \E s \in [1 .. n -> ListValues] :
           \E from_tail \in BOOLEAN :
               LET l == filled(default, s, from_tail)
               IN  /\ nodes = l.nodes /\ used = l.used /\ len = l.len
                   /\ head = l.head /\ tail = l.tail

\* let cloned = list.copy()
Copy ==
    /\ copy = None
    /\ lcall' = Call("copy", 0, 0)
    /\ lret' = [kind |-> clone(Self).kind, val |-> 0]
    /\ copy' = Some(clone(Self).l)
    /\ UNCHANGED <<nodes, used, len, head, tail, net, dropped, muts,
                   dyn, dret, poolVars, coreVars>>

CallOn(which, call) == [op |-> "mutate", on |-> which, call |-> call]

\* the outcome of a call on the original becomes the new state of the list
OnOriginal(call, out) ==
    /\ lcall' = CallOn("original", call)
    /\ lret' = [kind |-> out.kind, val |-> out.val]
    /\ nodes' = out.l.nodes
    /\ used' = out.l.used
    /\ len' = out.l.len
    /\ head' = out.l.head
    /\ tail' = out.l.tail
    /\ dropped' = dropped + drop_overwritten(Self, out.l)

\* the outcome of a call on the copy becomes the new state of the copy
OnCopy(call, out) ==
    /\ lcall' = CallOn("copy", call)
    /\ lret' = [kind |-> out.kind, val |-> out.val]
    /\ copy' = Some(out.l)
    /\ dropped' = dropped + drop_overwritten(unwrap(copy), out.l)

\* the call is made on the list named by which
On(which, call, out) ==
    \/ which = "original" /\ OnOriginal(call, out)
    \/ which = "copy" /\ OnCopy(call, out)

\* the mutating calls made on the list l named by which
Mutating(which, l) ==
    \/ \E v \in ListValues :
           On(which, Call("insert_tail", 0, v), insert_tail(l, v))
    \/ \E v \in ListValues :
           On(which, Call("insert_head", 0, v), insert_head(l, v))
    \/ \E i \in Positions : On(which, Call("remove", i, 0), remove(l, i))
    \/ \E c \in Comparators : On(which, CallSort(c), sort_by(l, c))
    \/ \E f \in Computations :
           On(which, CallCompute(f), iter_and_compute(l, f))

\* a mutating call on the original, before the copy is made or while it is
\* kept
MutateOriginal ==
    /\ muts < MaxMutations
    /\ Mutating("original", Self)
    /\ muts' = muts + 1
    /\ UNCHANGED <<copy, net, dyn, dret, poolVars, coreVars>>

\* a mutating call on the copy
MutateCopy ==
    /\ copy # None
    /\ muts < MaxMutations
    /\ Mutating("copy", unwrap(copy))
    /\ muts' = muts + 1
    /\ UNCHANGED <<nodes, used, len, head, tail, net, dyn, dret, poolVars, coreVars>>

\* the copy goes out of scope
DropCopy ==
    /\ copy # None
    /\ lcall' = NoCall
    /\ lret' = NoRet
    /\ copy' = None
    /\ dropped' = dropped + drop_list(unwrap(copy))
    /\ UNCHANGED <<nodes, used, len, head, tail, net, muts, dyn, dret,
                   poolVars, coreVars>>

NextCopy ==
    \/ Copy
    \/ MutateOriginal
    \/ MutateCopy
    \/ DropCopy

SpecCopy == InitCopy /\ [][NextCopy]_vars

\* ---- the arena list and the heap list given the same calls ----

\* one call made on both lists; only calls that keep the heap list within
\* the arena's capacity are made
Mirror(out, dout, delta) ==
    /\ lcall = NoCall
    /\ dout.l.len <= K
    /\ ApplyList(out, delta)
    /\ dyn' = dout.l
    /\ dret' = [kind |-> dout.kind, val |-> dout.val]

MirrorInsertTail ==
    \E v \in ListValues :
        /\ lcall' = Call("insert_tail", 0, v)
        /\ Mirror(insert_tail(Self, v), dyn_insert_tail(dyn, v), 1)

MirrorInsertHead ==
    \E v \in ListValues :
        /\ lcall' = Call("insert_head", 0, v)
        /\ Mirror(insert_head(Self, v), dyn_insert_head(dyn, v), 1)

MirrorInsertAfter ==
    \E i \in Positions, v \in ListValues :
        /\ lcall' = Call("insert_after", i, v)
        /\ Mirror(insert_after(Self, i, v), dyn_insert_after(dyn, i, v), 1)

MirrorInsertBefore ==
    \E i \in Positions, v \in ListValues :
        /\ lcall' = Call("insert_before", i, v)
        /\ Mirror(insert_before(Self, i, v), dyn_insert_before(dyn, i, v), 1)

MirrorGet ==
    \E i \in Positions :
        /\ lcall' = Call("get", i, 0)
        /\ Mirror(get(Self, i), dyn_get(dyn, i), 0)

MirrorRemove ==
    \E i \in Positions :
        /\ lcall' = Call("remove", i, 0)
        /\ Mirror(remove(Self, i), dyn_remove(dyn, i), 0 - 1)

MirrorGetIndexWhere ==
    \E f \in Predicates :
        /\ lcall' = CallWhere("get_index_where", f)
        /\ Mirror(get_index_where(Self, f), dyn_get_index_where(dyn, f), 0)

MirrorGetValueWhere ==
    \E f \in Predicates :
        /\ lcall' = CallWhere("get_value_where", f)
        /\ Mirror(get_value_where(Self, f), dyn_get_value_where(dyn, f), 0)

\* the caller drops both results
MirrorDropResult ==
    /\ lcall # NoCall
    /\ lcall' = NoCall
    /\ lret' = NoRet
    /\ dret' = NoRet
    /\ UNCHANGED <<nodes, used, len, head, tail, net, dropped, copy, muts,
                   dyn, poolVars, coreVars>>

NextMirror ==
    \/ MirrorInsertTail
    \/ MirrorInsertHead
    \/ MirrorInsertAfter
    \/ MirrorInsertBefore
    \/ MirrorGet
    \/ MirrorRemove
    \/ MirrorGetIndexWhere
    \/ MirrorGetValueWhere
    \/ MirrorDropResult

SpecMirror == InitList /\ [][NextMirror]_vars

\* ========================================================================
\* Part III: array::core, vec::core, option::core
\* ========================================================================

MaxLen == 3
\* largest length of the sequences given to keep_lowest_by and
\* keep_lowest_vec_by

\* the elements of those sequences; under by_key 1 and 2 compare Equal
MergeValues == 1 .. 3

\* a slice index is checked against the slice's length
in_bounds(s, i) == i < Len(s)

\* keep_lowest_by's loop: s1[k] = v for k = Len(out), Len(out) + 1, ..;
\* the locals i1, i2 count from 0
RECURSIVE keep_lowest_loop(_, _, _, _, _, _, _)
keep_lowest_loop(s1_copy, s2_in, c, N, i1, i2, out) ==
    LET k == Len(out)
        panic == [kind |-> "Panic",
                  s1 |-> out \o SubSeq(s1_copy, k + 1, Len(s1_copy))]
        from1 == keep_lowest_loop(s1_copy, s2_in, c, N, i1 + 1, i2,
                                  Append(out, s1_copy[i1 + 1]))
        from2 == keep_lowest_loop(s1_copy, s2_in, c, N, i1, i2 + 1,
                                  Append(out, s2_in[i2 + 1]))
    IN  IF k >= N THEN [kind |-> "Ok", s1 |-> out]
        ELSE IF i1 >= N
        THEN IF in_bounds(s2_in, i2) THEN from2 ELSE panic
        ELSE IF i2 >= N
        THEN IF in_bounds(s1_copy, i1) THEN from1 ELSE panic
        ELSE IF ~in_bounds(s1_copy, i1) \/ ~in_bounds(s2_in, i2) THEN panic
        ELSE IF compare(c, s1_copy[i1 + 1], s2_in[i2 + 1]) = "Greater"
        THEN from2
        ELSE from1

\* keep_lowest_by(&mut s1, s2, compare) on two arrays [T; N]
keep_lowest_by(s1_in, s2_in, c) ==
    keep_lowest_loop(s1_in, s2_in, c, Len(s1_in), 0, 0, <<>>)

\* a loop that takes the second vector's element when the two compare Equal
RECURSIVE keep_lowest_vec_loop_second_on_equal(_, _, _, _, _, _, _)
keep_lowest_vec_loop_second_on_equal(v1, v2, c, n, i1, i2, out) ==
    LET from1 == keep_lowest_vec_loop_second_on_equal(
                     v1, v2, c, n, i1 + 1, i2, Append(out, v1[i1 + 1]))
        from2 == keep_lowest_vec_loop_second_on_equal(
                     v1, v2, c, n, i1, i2 + 1, Append(out, v2[i2 + 1]))
    IN  IF Len(out) >= n THEN [kind |-> "Ok", s1 |-> out]
        ELSE IF i1 >= Len(v1)
        THEN IF in_bounds(v2, i2) THEN from2
             ELSE [kind |-> "Panic", s1 |-> v1]
        ELSE IF i2 >= Len(v2) THEN from1
        ELSE IF compare(c, v1[i1 + 1], v2[i2 + 1]) = "Less"
        THEN from1
        ELSE from2

\* keep_lowest_vec_by's loop: out.push(v) while out.len() < n; v1 is
\* replaced only after the loop
RECURSIVE keep_lowest_vec_loop(_, _, _, _, _, _, _)
keep_lowest_vec_loop(v1, v2, c, n, i1, i2, out) ==
    LET from1 == keep_lowest_vec_loop(v1, v2, c, n, i1 + 1, i2,
                                      Append(out, v1[i1 + 1]))
        from2 == keep_lowest_vec_loop(v1, v2, c, n, i1, i2 + 1,
                                      Append(out, v2[i2 + 1]))
    IN  IF Len(out) >= n THEN [kind |-> "Ok", s1 |-> out]
        ELSE IF i1 >= Len(v1)
        THEN IF in_bounds(v2, i2) THEN from2
             ELSE [kind |-> "Panic", s1 |-> v1]
        ELSE IF i2 >= Len(v2) THEN from1
        ELSE IF compare(c, v1[i1 + 1], v2[i2 + 1]) = "Greater"
        THEN from2
        ELSE from1

\* keep_lowest_vec_by(&mut v1, v2, compare)
keep_lowest_vec_by(v1, v2, c) ==
    keep_lowest_vec_loop(v1, v2, c, Len(v1), 0, 0, <<>>)

\* the comparators given to put_option_first and put_option_last: those of
\* the list, and one that answers Less whatever it is given
OptionComparators == Comparators \cup {"always_less"}

compare_t(c, x, y) == IF c = "always_less" THEN "Less" ELSE compare(c, x, y)

put_option_first(x, y, c) ==
    IF x = None /\ y = None THEN "Equal"
    ELSE IF x = None THEN "Less"
    ELSE IF y = None THEN "Greater"
    ELSE compare_t(c, unwrap(x), unwrap(y))

\* a put_option_last that orders None as put_option_first does
put_option_last_none_first(x, y, c) == put_option_first(x, y, c)

put_option_last(x, y, c) ==
    IF x = None /\ y = None THEN "Equal"
    ELSE IF x = None THEN "Greater"
    ELSE IF y = None THEN "Less"
    ELSE compare_t(c, unwrap(x), unwrap(y))

\* ---- keep_lowest_by and keep_lowest_vec_by as functions of their inputs ----

\* the sequences of at most n elements
SeqsUpTo(n) == UNION {[1 .. k -> MergeValues] : k \in 0 .. n}

\* the caller holds any two sequences
InitMerge ==
    /\ PoolInit /\ cap = 1
    /\ ListInit
    /\ s1 \in SeqsUpTo(MaxLen)
    /\ s2 \in SeqsUpTo(MaxLen)
    /\ opt_a = None /\ opt_b = None
    /\ ccall = [op |-> "-"]

\* keep_lowest_by(&mut s1, s2, compare): both are arrays [T; N]
KeepLowestBy ==
    /\ ccall.op = "-"
    /\ Len(s1) = Len(s2)
    /\ \E c \in Comparators :
           /\ s1' = keep_lowest_by(s1, s2, c).s1
           /\ ccall' = [op |-> "keep_lowest_by", compare |-> c, s1 |-> s1,
                        s2 |-> s2, kind |-> keep_lowest_by(s1, s2, c).kind]
    /\ UNCHANGED <<s2, opt_a, opt_b, poolVars, listVars>>

\* keep_lowest_vec_by(&mut v1, v2, compare): the lengths may differ
KeepLowestVecBy ==
    /\ ccall.op = "-"
    /\ \E c \in Comparators :
           /\ s1' = keep_lowest_vec_by(s1, s2, c).s1
           /\ ccall' = [op |-> "keep_lowest_vec_by", compare |-> c,
                        s1 |-> s1, s2 |-> s2,
                        kind |-> keep_lowest_vec_by(s1, s2, c).kind]
    /\ UNCHANGED <<s2, opt_a, opt_b, poolVars, listVars>>

NextMerge ==
    \/ KeepLowestBy
    \/ KeepLowestVecBy

SpecMerge == InitMerge /\ [][NextMerge]_vars

\* ---- put_option_first and put_option_last as functions of their inputs ----

OptionValues == 1 .. 4

Options == {None} \cup {Some(v) : v \in OptionValues}

\* the caller holds any two options
InitOption ==
    /\ PoolInit /\ cap = 1
    /\ ListInit
    /\ s1 = <<>> /\ s2 = <<>>
    /\ opt_a \in Options
    /\ opt_b \in Options
    /\ ccall = [op |-> "-"]

PutOptionFirst ==
    /\ ccall.op = "-"
    /\ \E c \in OptionComparators :
           ccall' = [op |-> "put_option_first", compare_t |-> c,
                     ret |-> put_option_first(opt_a, opt_b, c)]
    /\ UNCHANGED <<s1, s2, opt_a, opt_b, poolVars, listVars>>

PutOptionLast ==
    /\ ccall.op = "-"
    /\ \E c \in OptionComparators :
           ccall' = [op |-> "put_option_last", compare_t |-> c,
                     ret |-> put_option_last(opt_a, opt_b, c)]
    /\ UNCHANGED <<s1, s2, opt_a, opt_b, poolVars, listVars>>

NextOption ==
    \/ PutOptionFirst
    \/ PutOptionLast

SpecOption == InitOption /\ [][NextOption]_vars

\* ========================================================================
\* Properties of the pool
\* ========================================================================
Top == TopOf(state)
Bot == BotOf(state)

\* number of successful removals that returned v
TimesReturned(v) == Cardinality({i \in 1 .. Len(remLog) : remLog[i].val = v})

\* number of successful inserts of v
TimesInserted(v) == Cardinality({i \in 1 .. Len(insLog) : insLog[i] = v})

HasRemoval(kind) == \E i \in 1 .. Len(remLog) : remLog[i].op = kind

\* p's call returns in this step from its load (the empty / full exit)
ReturnsAtLoad(p) == pc[p] = "load" /\ pc'[p] = "idle"
\* p's call goes on to the ring access in this step
PassesLoad(p) == pc[p] = "load" /\ pc'[p] = "access"
\* p's CAS succeeds in this step
CasSucceeds(p) == pc[p] = "cas" /\ pc'[p] = "idle"
\* p's CAS fails in this step
CasFails(p) == pc[p] = "cas" /\ pc'[p] = "load"

\* C1: under any interleaving of the owner and two thieves no inserted value
\* is returned by more than one successful take/steal, and once the pool is
\* drained to empty (no call in progress) the multiset of returned values
\* equals the multiset of values whose insert returned Ok.
C1_NoDuplicateNoLoss ==
    /\ \A v \in Values : TimesReturned(v) <= 1
    /\ (AllIdle /\ Top = Bot) =>
           \A v \in Values : TimesReturned(v) = TimesInserted(v)

\* C2: in every reachable state the packed cursors satisfy top <= bottom
\* and 0 <= bottom - top <= N.
C2_CursorBounds ==
    /\ Top <= Bot
    /\ Bot - Top >= 0
    /\ Bot - Top <= cap

\* the pool is full again after takes and steals have moved both cursors
C2_Witness ==
    /\ Bot - Top = cap
    /\ Top > 0
    /\ HasRemoval("steal")
    /\ HasRemoval("take")

\* C3: a successful take returns the oldest element still present and
\* advances top by one, leaving bottom alone; as long as no steal has
\* succeeded the takes return the inserted values in insertion order, and
\* take returns None only when nothing is present.
C3_TakeStep ==
    /\ CasSucceeds(Owner) /\ op[Owner] = "take" =>
           /\ present # <<>>
           /\ ret'[Owner] = Ret("Some", Head(present))
           /\ TopOf(state') = Top + 1
           /\ BotOf(state') = Bot
    /\ ReturnsAtLoad(Owner) /\ op[Owner] = "take" =>
           /\ ret'[Owner] = Ret("None", 0)
           /\ present = <<>>

C3_TakeOrder ==
    ~HasRemoval("steal") =>
        /\ Len(remLog) <= Len(insLog)
        /\ \A i \in 1 .. Len(remLog) : remLog[i].val = insLog[i]

C3_TakeFifo == [][C3_TakeStep]_vars /\ []C3_TakeOrder

\* two takes returned the first two inserted values, then take returned None
C3_Witness ==
    /\ Len(insLog) >= 2
    /\ Len(remLog) = Len(insLog)
    /\ ~HasRemoval("steal")
    /\ ret[Owner] = Ret("None", 0)

\* C4: when calls are made one after the other, a successful steal returns
\* the newest element still present and decrements bottom by one, take
\* returns the oldest element of the same sequence, and steal returns None
\* exactly when nothing is present.
C4_StealStep ==
    /\ \A p \in Thieves :
          /\ CasSucceeds(p) =>
                 /\ present # <<>>
                 /\ ret'[p] = Ret("Some", present[Len(present)])
                 /\ BotOf(state') = Bot - 1
                 /\ TopOf(state') = Top
          /\ ReturnsAtLoad(p) => ret'[p] = Ret("None", 0) /\ present = <<>>
          /\ PassesLoad(p) => present # <<>>
    /\ CasSucceeds(Owner) /\ op[Owner] = "take" =>
           ret'[Owner] = Ret("Some", Head(present))

C4_StealLifo == [][C4_StealStep]_vars

\* a take and then a steal succeeded, and a later steal found the pool empty
C4_Witness ==
    /\ \E i, j \in 1 .. Len(remLog) :
           i < j /\ remLog[i].op = "take" /\ remLog[j].op = "steal"
    /\ present = <<>>
    /\ \E p \in Thieves : ret[p] = Ret("None", 0)

\* C5: insert returns IsFull exactly when its loaded snapshot has
\* bottom - top == N and otherwise returns Ok after publishing bottom + 1;
\* with no removal, N inserts into the empty pool succeed and the next one
\* returns IsFull.
C5_InsertStep ==
    /\ ReturnsAtLoad(Owner) /\ op[Owner] = "insert" =>
           /\ ret'[Owner] = Ret("IsFull", 0)
           /\ Bot - Top = cap
    /\ PassesLoad(Owner) /\ op[Owner] = "insert" => Bot - Top # cap
    /\ CasSucceeds(Owner) /\ op[Owner] = "insert" =>
           /\ ret'[Owner] = Ret("Ok", 0)
           /\ state' = pack(Top, Bot + 1)

C5_FillThenFull ==
    remLog = <<>> =>
        /\ Len(insLog) <= cap
        /\ ret[Owner].kind = "IsFull" => Len(insLog) = cap
        /\ ret[Owner].kind = "Ok" => Len(insLog) = started

C5_InsertIsFull == [][C5_InsertStep]_vars /\ []C5_FillThenFull

\* N inserts succeeded with no removal and the next insert returned IsFull
C5_Witness ==
    /\ cap = MaxN
    /\ remLog = <<>>
    /\ Len(insLog) = cap
    /\ ret[Owner] = Ret("IsFull", 0)

\* C6: take and steal return None exactly when their loaded snapshot has
\* top == bottom and Some(value) otherwise; no call ever returns an IsEmpty
\* error; after as many successful removals as successful inserts both
\* return None.
Removing(p) == op[p] \in {"take", "steal"}

C6_RemoveStep ==
    \A p \in Procs :
        /\ ReturnsAtLoad(p) /\ Removing(p) =>
               ret'[p] = Ret("None", 0) /\ Top = Bot
        /\ PassesLoad(p) /\ Removing(p) => Top # Bot
        /\ CasSucceeds(p) /\ Removing(p) =>
               ret'[p].kind = "Some" /\ ret'[p].val \in Values
        /\ pc[p] = "load" /\ Removing(p) /\ Len(remLog) = Len(insLog) =>
               pc'[p] = "load" \/ ret'[p] = Ret("None", 0)
        /\ ret'[p].kind \in {"-", "Ok", "IsFull", "None", "Some"}

C6_EmptyIsNone == [][C6_RemoveStep]_vars

\* everything inserted was removed, and both take and steal returned None
C6_Witness ==
    /\ Len(insLog) >= 1
    /\ Len(remLog) = Len(insLog)
    /\ ret[Owner] = Ret("None", 0)
    /\ \E p \in Thieves : ret[p] = Ret("None", 0)

\* C7: whenever the CAS of an insert, take or steal fails, the CAS of some
\* other operation succeeded between that operation's load and its CAS.
C7_FailStep == \A p \in Procs : CasFails(p) => changed[p]

C7_LockFree == [][C7_FailStep]_vars

\* an insert and a steal are both about to fail their CAS
C7_Witness ==
    /\ pc[Owner] = "cas" /\ op[Owner] = "insert"
    /\ state # state_old[Owner]
    /\ \E p \in Thieves : pc[p] = "cas" /\ state # state_old[p]

\* C8: there is no reachable state in which insert is writing ring[i] while
\* a take or steal is reading the same ring[i].
C8_NoConflictingAccess ==
    \A p \in Thieves :
        ~(pc[p] = "access" /\ RacesWithWrite(p, SlotOf(p)))

\* C9: every successful transition of the packed state changes exactly one
\* cursor by exactly one: insert bottom + 1, take top + 1, steal bottom - 1;
\* top never decreases and steal never changes top.
C9_CursorStep ==
    /\ state' # state => \E p \in Procs : CasSucceeds(p)
    /\ TopOf(state') >= Top
    /\ \A p \in Procs :
          CasSucceeds(p) =>
              CASE op[p] = "insert" ->
                       TopOf(state') = Top /\ BotOf(state') = Bot + 1
                [] op[p] = "take" ->
                       TopOf(state') = Top + 1 /\ BotOf(state') = Bot
                [] op[p] = "steal" ->
                       TopOf(state') = Top /\ BotOf(state') = Bot - 1

C9_OneCursorByOne == [][C9_CursorStep]_vars

\* inserts, a take and a steal have all succeeded
C9_Witness ==
    /\ Len(insLog) >= 2
    /\ HasRemoval("take")
    /\ HasRemoval("steal")
    /\ Top > 0

\* number of places of the logical content that hold v
TimesPresent(v) == Cardinality({i \in 1 .. Len(present) : present[i] = v})

\* C38: with the owner and one thief, no value is returned twice and none
\* is lost (every value inserted is either still present or was returned
\* exactly once), and whenever a steal's or take's CAS succeeds, the value
\* it read before the CAS is the one logically at the removed end when the
\* CAS takes effect.
C38_Conserved ==
    \A v \in Values :
        /\ TimesReturned(v) <= 1
        /\ TimesReturned(v) + TimesPresent(v) = TimesInserted(v)

C38_Step ==
    \A p \in Procs :
        (CasSucceeds(p) /\ op[p] \in {"steal", "take"}) =>
            /\ present # <<>>
            /\ value[p] = IF op[p] = "steal" THEN present[Len(present)]
                          ELSE Head(present)
            /\ ret'[p] = Ret("Some", value[p])

C38_OneThiefSafe == []C38_Conserved /\ [][C38_Step]_vars

\* the thief's steal succeeded between the load and the CAS of an insert of
\* the owner, after a take
C38_Witness ==
    /\ ret[OneThief].kind = "Some"
    /\ HasRemoval("take")
    /\ pc[Owner] = "cas"
    /\ op[Owner] = "insert"
    /\ changed[Owner]

\* the ring slots of the logically present elements: index mod N for every
\* index in [top, bottom) of the shared state
LiveSlots == {Add32(Top, k) % cap : k \in 0 .. Sub32(Bot, Top) - 1}

\* the owner's insert is about to write the ring
InsertAboutToWrite == pc[Owner] = "access" /\ op[Owner] = "insert"

\* C39: insert never overwrites a logically present element: when it
\* writes ring[bottom mod N], whether or not its CAS succeeds afterwards, no
\* index of the live range [top, bottom) of the shared state maps to that
\* slot, and the write leaves every live slot as it was, under any
\* interleaving with the steals of two thieves.
C39_SlotNotLive ==
    InsertAboutToWrite =>
        BotOf(state_old[Owner]) % cap \notin LiveSlots

C39_Step ==
    (InsertAboutToWrite /\ pc'[Owner] = "cas") =>
        /\ queue'[BotOf(state_old[Owner]) % cap] = arg[Owner]
        /\ \A i \in LiveSlots : queue'[i] = queue[i]

C39_InsertKeepsLive == []C39_SlotNotLive /\ [][C39_Step]_vars

\* the owner is about to write while an element is present, after a steal
\* has succeeded and while a thief that has read the ring is about to try
\* its CAS
C39_Witness ==
    /\ InsertAboutToWrite
    /\ present # <<>>
    /\ HasRemoval("steal")
    /\ \E p \in Thieves : pc[p] = "cas"

\* C40: every insert, take or steal that has started eventually returns,
\* given weak fairness on the steps of each caller (the inserts being
\* bounded, only finitely many CASes succeed in all), and a call whose CAS
\* is reached with no CAS of another call having succeeded since its load
\* returns at that CAS, after a single iteration of its loop.
C40_Returns == \A p \in Procs : (pc[p] # "idle") ~> (pc[p] = "idle")

C40_Step ==
    \A p \in Procs :
        (pc[p] = "cas" /\ ~changed[p] /\ pc'[p] # "cas") =>
            /\ pc'[p] = "idle"
            /\ ret'[p].kind \in {"Ok", "Some"}

C40_Terminates == C40_Returns /\ [][C40_Step]_vars

\* a thief is about to fail its CAS and retry, a CAS having succeeded since
\* its load, while the owner is inside a call
C40_Witness ==
    \E p \in Thieves :
        /\ pc[p] = "cas"
        /\ changed[p]
        /\ pc[Owner] # "idle"

\* ========================================================================
\* Properties of the arena list
\* ========================================================================

InsertCalls == {"insert_head", "insert_tail", "insert_after", "insert_before"}

\* the position passed to an insert call c is valid for a list of length n
ValidInsertPosition(c, n) ==
    CASE c.op = "insert_after" -> c.index < n
      [] c.op = "insert_before" -> c.index <= n
      [] OTHER -> TRUE

\* C10: len equals the number of successful inserts minus the number of
\* successful removes, 0 <= len <= K in every state, is_full() holds iff
\* len == K, and every insert with a valid position attempted at len == K
\* returns ListIsFull.
C10_LenInv ==
    /\ len = net
    /\ 0 <= len /\ len <= K
    /\ is_full(Self) <=> len = K

C10_FullStep ==
    /\ lcall'.op \in InsertCalls /\ len = K
         /\ ValidInsertPosition(lcall', len) =>
           /\ lret'.kind = "ListIsFull"
           /\ len' = K
    /\ lcall'.op \in InsertCalls /\ lret'.kind = "ListIsFull" => len = K

C10_LenTracksCount == []C10_LenInv /\ [][C10_FullStep]_vars

\* a full list refused insert_before at position len
C10_Witness ==
    /\ len = K
    /\ lcall.op = "insert_before" /\ lcall.index = K
    /\ lret.kind = "ListIsFull"
    /\ head # Some(0)

\* the slots met from `cur` by following next (forward) or prev, at most
\* `fuel` of them
RECURSIVE Chain(_, _, _, _)
Chain(ns, cur, fuel, forward) ==
    IF cur = None \/ fuel = 0 THEN <<>>
    ELSE LET i == unwrap(cur)
         IN  <<i>> \o Chain(ns, IF forward THEN ns[i].next ELSE ns[i].prev,
                            fuel - 1, forward)

\* the head-to-tail chain and the tail-to-head chain of a list
ForwardOf(l) == Chain(l.nodes, l.head, K + 1, TRUE)
BackwardOf(l) == Chain(l.nodes, l.tail, K + 1, FALSE)

\* the values read from head to tail
ContentsOf(l) ==
    [i \in 1 .. Len(ForwardOf(l)) |-> l.nodes[ForwardOf(l)[i]].value]

\* the same of the current list
Forward == ForwardOf(Self)
Backward == BackwardOf(Self)
Contents == ContentsOf(Self)

Reverse(s) == [i \in 1 .. Len(s) |-> s[Len(s) + 1 - i]]

Slots == 0 .. K - 1

\* number of bits set in the mask u
PopCount(u) == Cardinality({i \in Slots : Bit(u, i) = 1})

\* the last call was `name` and it returned Ok
Returned(c, r, name) == c.op = name /\ r.kind = "Ok"

\* C11: bit i of `used` is set iff slot i holds a live node that is on the
\* head-to-tail chain, and the number of set bits equals len.
C11_UsedMatchesLive ==
    /\ \A i \in Slots :
           Bit(used, i) = 1 <=> nodes[i].init /\ i \in Range(Forward)
    /\ used < 2 ^ K
    /\ PopCount(used) = len

\* a remove has just freed slot 0 while slots 1 and 2 stay live
C11_Witness ==
    /\ Returned(lcall, lret, "remove")
    /\ Bit(used, 0) = 0 /\ Bit(used, 1) = 1 /\ Bit(used, 2) = 1
    /\ len = 2

Distinct(s) == \A i, j \in 1 .. Len(s) : i # j => s[i] # s[j]

\* C12: with len > 0, following next from head visits exactly len distinct
\* live slots, the last being tail with next == None; following prev from
\* tail visits the same slots in reverse order and ends at head with
\* prev == None; the chain has no cycle.
C12_ChainInvariant ==
    len > 0 =>
        /\ Len(Forward) = len
        /\ Distinct(Forward)
        /\ \A i \in 1 .. len : nodes[Forward[i]].init
        /\ Forward[len] = unwrap(tail)
        /\ nodes[unwrap(tail)].next = None
        /\ Backward = Reverse(Forward)
        /\ Backward[len] = unwrap(head)
        /\ nodes[unwrap(head)].prev = None

\* an insert_after in the middle has linked slot 2 between slots 0 and 1
C12_Witness ==
    /\ Returned(lcall, lret, "insert_after")
    /\ len = 3
    /\ Forward = <<0, 2, 1>>

\* o is Some(i) for a slot i that holds a live node
LiveSlot(o) ==
    /\ o # None
    /\ unwrap(o) \in Slots
    /\ nodes[unwrap(o)].init
    /\ Bit(used, unwrap(o)) = 1

\* C13: head and tail are both None iff len == 0; when len > 0 both are Some
\* and index live slots, and head == tail iff len == 1.
C13_HeadTail ==
    /\ (head = None /\ tail = None) <=> len = 0
    /\ (head = None) <=> (tail = None)
    /\ len > 0 =>
           /\ LiveSlot(head)
           /\ LiveSlot(tail)
           /\ (head = tail) <=> len = 1

\* the sole element has just been removed: both ends are None again
C13_Witness ==
    /\ Returned(lcall, lret, "remove")
    /\ len = 0
    /\ head = None /\ tail = None

\* C14: insert_before(i, v) accepts every position 0 <= i <= len: a call
\* that did not return Ok left the list as it was, and it was refused
\* either with IndexOutOfRange, exactly when i > len, or with ListIsFull on a
\* full list; it never panics, i == len on a non-empty list included.
C14_InsertBeforeAccepts ==
    lcall.op = "insert_before" /\ lret.kind # "Ok" =>
        /\ lret.kind # "Panic"
        /\ lret.kind = "IndexOutOfRange" <=> lcall.index > len
        /\ lret.kind = "ListIsFull" => len = K

\* s with x put at position p (counted from 0)
InsertAt(s, p, x) == SubSeq(s, 1, p) \o <<x>> \o SubSeq(s, p + 1, Len(s))

\* the step puts the value v, held in a slot that was free, at position p and
\* leaves the other elements in their slots and in their order
InsertedAt(p, v) ==
    /\ Contents' = InsertAt(Contents, p, v)
    /\ \E s \in Slots \ Range(Forward) : Forward' = InsertAt(Forward, p, s)
    /\ Backward' = Reverse(Forward')
    /\ len' = len + 1

\* C15: insert_tail(v) makes v the last element and insert_head(v) the
\* first, the other elements keeping their slots and their relative order;
\* both succeed on a list that is not full; get(i) returns the value at
\* position i of the head-to-tail order, so after insert_tail of v1..vn it
\* returns v(i+1) and after insert_head of v1..vn it returns v(n-i).
C15_Step ==
    /\ lcall'.op \in {"insert_tail", "insert_head"} /\ len < K =>
           lret'.kind = "Ok"
    /\ Returned(lcall', lret', "insert_tail") => InsertedAt(len, lcall'.value)
    /\ Returned(lcall', lret', "insert_head") => InsertedAt(0, lcall'.value)
    /\ lcall'.op = "get" /\ lcall'.index < len =>
           /\ lret' = [kind |-> "Ok", val |-> Contents[lcall'.index + 1]]
           /\ Self' = Self

C15_EndInserts == [][C15_Step]_vars

\* insert_head(2) on the list 1, 1 built by insert_tail
C15_Witness ==
    /\ Returned(lcall, lret, "insert_head") /\ lcall.value = 2
    /\ Contents = <<2, 1, 1>>
    /\ Forward = <<2, 0, 1>>

\* C16: on a list that is not full and for every i < len, insert_after(i, v)
\* returns Ok and puts v at position i + 1, insert_before(i, v) returns Ok
\* and puts v at position i; the other elements keep their relative order
\* and len grows by one, whether the walk started at head or at tail.
C16_Step ==
    /\ lcall'.op = "insert_after" /\ lcall'.index < len /\ len < K =>
           /\ lret'.kind = "Ok"
           /\ InsertedAt(lcall'.index + 1, lcall'.value)
    /\ lcall'.op = "insert_before" /\ lcall'.index < len /\ len < K =>
           /\ lret'.kind = "Ok"
           /\ InsertedAt(lcall'.index, lcall'.value)

RemoveAt(s, p) == SubSeq(s, 1, p) \o SubSeq(s, p + 2, Len(s))

\* C17: remove(i) with i < len returns Ok and deletes exactly the element at
\* position i: the remaining elements keep their slots and their order, len
\* decreases by one, and the used bit of the freed slot, and only that bit,
\* is cleared; this holds for the head, the tail, a middle element and the
\* sole element.
C17_Step ==
    lcall'.op = "remove" /\ lcall'.index < len =>
        LET slot == Forward[lcall'.index + 1] IN
        /\ lret'.kind = "Ok"
        /\ Contents' = RemoveAt(Contents, lcall'.index)
        /\ Forward' = RemoveAt(Forward, lcall'.index)
        /\ Backward' = Reverse(Forward')
        /\ len' = len - 1
        /\ Bit(used, slot) = 1
        /\ used' = used - 2 ^ slot

C17_RemoveAtPosition == [][C17_Step]_vars

\* the second element of a list of four has just been removed: the walk went
\* one step forward from the head
C17_Witness ==
    /\ Returned(lcall, lret, "remove") /\ lcall.index = 1
    /\ len = 3
    /\ Forward = <<0, 2, 3>>
    /\ Contents = <<1, 1, 1>>

\* C18: get(i), remove(i) and insert_after(i, v) return IndexOutOfRange for
\* every i >= len, every index on an empty list included, and
\* insert_before(i, v) does for every i > len; none of them panics for such
\* an index, and the list is left as it was.
C18_Step ==
    /\ lcall'.op \in {"get", "remove", "insert_after"}
         /\ lcall'.index >= len =>
           /\ lret'.kind = "IndexOutOfRange"
           /\ Self' = Self
    /\ lcall'.op = "insert_before" /\ lcall'.index > len =>
           /\ lret'.kind = "IndexOutOfRange"
           /\ Self' = Self

C18_IndexOutOfRange == [][C18_Step]_vars

\* insert_after(K, v) on a full list: refused for its index, not for the
\* capacity
C18_Witness ==
    /\ lcall.op = "insert_after" /\ lcall.index = K
    /\ len = K
    /\ lret.kind = "IndexOutOfRange"

\* C19: after any sequence of inserts and removes, an insert at a valid
\* position succeeds whenever len < K and is refused with ListIsFull only
\* when len == K: a call that did not return Ok left the list as it was, had
\* an invalid position or met a full list; and whenever len < K a vacant
\* slot below K is found by first_free, so a freed slot is used again.
C19_InsertWhileRoom ==
    /\ lcall.op \in InsertCalls /\ lret.kind # "Ok"
         /\ ValidInsertPosition(lcall, len) =>
           lret.kind = "ListIsFull" /\ len = K
    /\ lcall.op \in InsertCalls /\ lret.kind = "ListIsFull" => len = K
    /\ len < K =>
           /\ first_free(used) < K
           /\ ~nodes[first_free(used)].init

\* no value of s is Greater, under the comparator c, than a later one
SortedUnder(c, s) ==
    \A i, j \in 1 .. Len(s) : i < j => compare(c, s[i], s[j]) # "Greater"

\* C20: after sort_by(cmp), in either build, the head-to-tail order is
\* non-decreasing under cmp and the chain invariants hold; it is a
\* permutation of the order before, since the sort leaves every slot, its
\* value, the used mask and len as they were and the chain visits exactly the
\* live slots; a list of length 0 or 1 is left as it was.
C20_After ==
    lcall.op = "sort_by" =>
        /\ lret.kind = "Ok"
        /\ SortedUnder(lcall.cmp, Contents)
        /\ C11_UsedMatchesLive
        /\ C12_ChainInvariant
        /\ C13_HeadTail

C20_Step ==
    lcall'.op = "sort_by" =>
        /\ \A i \in Slots :
               /\ nodes'[i].init = nodes[i].init
               /\ nodes'[i].value = nodes[i].value
               /\ nodes'[i].index = nodes[i].index
        /\ len' = len /\ used' = used
        /\ len <= 1 => Self' = Self

C20_SortBy == []C20_After /\ [][C20_Step]_vars

\* 2, 1, 2, 1 (slots 0..3) sorted by a.cmp(b): the links now run 1, 3, 0, 2
C20_Witness ==
    /\ Returned(lcall, lret, "sort_by") /\ lcall.cmp = "natural"
    /\ Contents = <<1, 1, 2, 2>>
    /\ Forward = <<1, 3, 0, 2>>

\* the place of slot x in the order s
PositionIn(s, x) == CHOOSE i \in 1 .. Len(s) : s[i] = x

\* C21: sort_by is stable: two elements that compare Equal stand after the
\* sort in the same relative order as before it, whichever build is used.
C21_Step ==
    lcall'.op = "sort_by" =>
        \A a, b \in Range(Forward) :
            /\ cmp_indices(nodes, lcall'.cmp, a, b) = "Equal"
            /\ PositionIn(Forward, a) < PositionIn(Forward, b)
            => PositionIn(Forward', a) < PositionIn(Forward', b)

C21_SortStable == [][C21_Step]_vars

\* how many times v occurs in s
Count(s, v) == Cardinality({i \in 1 .. Len(s) : s[i] = v})

\* C22: select_n_first_by with bound n returns exactly min(n, len) values,
\* in ascending order under cmp, and they are min(n, len) smallest elements
\* of the list as a multiset: none occurs more often than in the list and no
\* element left out is Less than one returned; for n >= len these are all the
\* elements, for an empty list or n = 0 there is none; the call returns (the
\* quickselect loop ends, nothing panics).
C22_SelectsSmallest ==
    lcall.op = "select_n_first_by" =>
        LET t == min(lcall.index, len)
            out == lret.val
            vals == [i \in 1 .. t |-> unwrap(out[i])]
        IN  /\ lret.kind = "Ok"
            /\ Len(out) >= t
            /\ \A i \in 1 .. Len(out) : out[i] # None <=> i <= t
            /\ SortedUnder(lcall.cmp, vals)
            /\ \A v \in Range(vals) : Count(vals, v) <= Count(Contents, v)
            /\ \A v \in Range(Contents) :
                   Count(Contents, v) > Count(vals, v) =>
                       \A w \in Range(vals) : compare(lcall.cmp, v, w) # "Less"
            /\ lcall.index >= len => Len(vals) = len
            /\ (len = 0 \/ lcall.index = 0) => vals = <<>>

\* the two smallest of 4, 1, 3, 2 by a.cmp(b), in an array of two entries
C22_Witness ==
    /\ Returned(lcall, lret, "select_n_first_by")
    /\ lcall.cmp = "natural" /\ lcall.index = 2
    /\ Contents = <<4, 1, 3, 2>>
    /\ lret.val = <<Some(1), Some(2)>>

\* C23: select_n_first_by never mutates the list: len, used, head, tail,
\* every node's links and every stored value are after the call what they
\* were before it.
C23_Step ==
    lcall'.op = "select_n_first_by" =>
        /\ nodes' = nodes
        /\ used' = used
        /\ len' = len
        /\ head' = head
        /\ tail' = tail

C23_SelectLeavesList == [][C23_Step]_vars

\* 3, 1, 2 held in slots 2, 1, 0: all three returned in order, the list as it was
C23_Witness ==
    /\ Returned(lcall, lret, "select_n_first_by")
    /\ lcall.cmp = "natural" /\ lcall.index = 3
    /\ lret.val = <<Some(1), Some(2), Some(3)>>
    /\ Contents = <<3, 1, 2>>
    /\ Forward = <<2, 1, 0>>

\* the positions (from 1) of the elements of s accepted by the predicate f
Accepted(s, f) == {i \in 1 .. Len(s) : s[i] \in f}

\* the first of them
FirstAccepted(s, f) ==
    CHOOSE i \in Accepted(s, f) : \A j \in Accepted(s, f) : i <= j

\* C24: get_index_where(p) returns the position, counted from 0 at the head,
\* of the first element that satisfies p, so that get(that index) is that
\* element, and None when no element satisfies p.
C24_IndexIsPosition ==
    lcall.op = "get_index_where" =>
        /\ lret.kind = "Ok"
        /\ Accepted(Contents, lcall.pred) = {} => lret.val = None
        /\ Accepted(Contents, lcall.pred) # {} =>
               /\ lret.val = Some(FirstAccepted(Contents, lcall.pred) - 1)
               /\ get(Self, unwrap(lret.val)).val \in lcall.pred

\* C25: get_value_where(p) returns the first element, in head-to-tail order,
\* whose value satisfies p, and None when no element does or the list is
\* empty.
C25_FirstValueWhere ==
    lcall.op = "get_value_where" =>
        /\ lret.kind = "Ok"
        /\ lret.val = IF Accepted(Contents, lcall.pred) = {} THEN None
                      ELSE Some(Contents[FirstAccepted(Contents, lcall.pred)])
        /\ len = 0 => lret.val = None

\* 1, 1, 2 held in slots 2, 0, 1: the first value equal to 2 is the third
C25_Witness ==
    /\ Returned(lcall, lret, "get_value_where")
    /\ lcall.pred = {2}
    /\ Contents = <<1, 1, 2>>
    /\ Forward = <<2, 0, 1>>
    /\ lret.val = Some(2)

\* C26: iter_and_compute(f) calls f exactly once on each element, in
\* head-to-tail order, and stores the result in place; no link, head, tail,
\* len or used bit changes, and on an empty list nothing happens.
C26_After ==
    lcall.op = "iter_and_compute" =>
        /\ lret.kind = "Ok"
        /\ lret.val = Forward
        /\ len = 0 => lret.val = <<>>

C26_Step ==
    lcall'.op = "iter_and_compute" =>
        /\ \A i \in Slots :
               nodes'[i] = IF Bit(used, i) = 1
                           THEN [nodes[i] EXCEPT
                                     !.value = lcall'.f[nodes[i].value]]
                           ELSE nodes[i]
        /\ head' = head /\ tail' = tail /\ len' = len /\ used' = used
        /\ len = 0 => nodes' = nodes

C26_IterAndCompute == []C26_After /\ [][C26_Step]_vars

\* 1, 2, 1 held in slots 1, 0, 2 with the values exchanged: now 2, 1, 2
C26_Witness ==
    /\ Returned(lcall, lret, "iter_and_compute")
    /\ lcall.f = [v \in ListValues |-> 3 - v]
    /\ Contents = <<2, 1, 2>>
    /\ Forward = <<1, 0, 2>>
    /\ lret.val = <<1, 0, 2>>

\* C27: as_array() returns K entries of which entry i is Some(a copy of the
\* node in slot i) exactly when slot i holds a live node, and None for every
\* unused slot.
C27_AsArrayMatchesSlots ==
    lcall.op = "as_array" =>
        /\ lret.kind = "Ok"
        /\ Len(lret.val) = K
        /\ \A i \in Slots :
               lret.val[i + 1] = IF Bit(used, i) = 1 THEN Some(nodes[i])
                                 ELSE None

\* C28: every value put in the list is dropped exactly once: a successful
\* remove runs the destructor of the value it takes out, and the list going
\* out of scope runs the destructor of every value still in it.
C28_Step ==
    /\ lcall'.op = "remove" /\ lret'.kind = "Ok" => dropped' = dropped + 1
    /\ lcall'.op = "drop" => dropped' = dropped + len

C28_DroppedOnce == [][C28_Step]_vars

\* C29: copy() returns a list with the same len and the same values in the
\* same head-to-tail order as the original, well formed in its own array; and
\* the two are independent: a later mutating call on one (insert, remove,
\* sort_by, iter_and_compute) leaves the other as it was.
C29_After ==
    lcall.op = "copy" =>
        /\ lret.kind = "Ok"
        /\ copy # None
        /\ unwrap(copy).len = len
        /\ ContentsOf(unwrap(copy)) = Contents
        /\ BackwardOf(unwrap(copy)) = Reverse(ForwardOf(unwrap(copy)))
        /\ Len(ForwardOf(unwrap(copy))) = len

C29_Step ==
    lcall'.op = "mutate" =>
        /\ lcall'.on = "original" => copy' = copy
        /\ lcall'.on = "copy" =>
               /\ nodes' = nodes /\ used' = used /\ len' = len
               /\ head' = head /\ tail' = tail

C29_CopyIndependent == []C29_After /\ [][C29_Step]_vars

\* 1, 2, 1 held in slots 2, 1, 0 and its copy after the copy's values have
\* been exchanged by iter_and_compute
C29_Witness ==
    /\ lcall.op = "mutate" /\ lcall.on = "copy"
    /\ lcall.call.op = "iter_and_compute"
    /\ lret.kind = "Ok"
    /\ Contents = <<1, 2, 1>>
    /\ Forward = <<2, 1, 0>>
    /\ copy # None
    /\ ContentsOf(unwrap(copy)) = <<2, 1, 2>>

\* C30: the heap list mirrors the arena list: given the same insert_head,
\* insert_tail, insert_after, insert_before, remove, get, get_index_where and
\* get_value_where calls, with the length never above K, both return the same
\* outcome for every call (same Ok or Err kind, same value or index) and hold
\* the same head-to-tail sequence of values.
C30_HeapMirrorsArena ==
    /\ lcall # NoCall =>
           /\ lret.kind = dret.kind
           /\ lret.val = dret.val
    /\ Contents = ContentsOf(dyn)
    /\ len = dyn.len


\* C31: the pool keeps working when a cursor is incremented past 2^w - 1:
\* no insert, take or steal aborts, the count (bottom - top) mod 2^w is the
\* number of elements present and at most N, insert reports IsFull only
\* when N elements are present, take and steal report None only when none
\* is, and a successful take or steal returns the oldest or the newest
\* element present.
C31_Count ==
    /\ \A p \in Procs : ret[p].kind # "Panic"
    /\ AllIdle => Sub32(Bot, Top) = Len(present) /\ Len(present) <= cap

C31_Step ==
    /\ \A p \in Procs : ReturnsAtLoad(p) =>
           IF op[p] = "insert"
           THEN ret'[p] = Ret("IsFull", 0) /\ Len(present) = cap
           ELSE ret'[p] = Ret("None", 0) /\ present = <<>>
    /\ \A p \in Thieves : CasSucceeds(p) =>
           present # <<>> /\ ret'[p] = Ret("Some", present[Len(present)])
    /\ CasSucceeds(Owner) /\ op[Owner] = "take" =>
           present # <<>> /\ ret'[Owner] = Ret("Some", Head(present))

C31_WorksAcrossWrap == []C31_Count /\ [][C31_Step]_vars

\* the insert calls of the arena list
InsertOps == {"insert_tail", "insert_head", "insert_after", "insert_before"}

\* the lowest-numbered slot whose bit is clear in the mask u
LowestClear(u) ==
    CHOOSE i \in 0 .. K :
        Bit(u, i) = 0 /\ \A j \in 0 .. i - 1 : Bit(u, j) = 1

\* C34: every successful insert puts the new node in the lowest-numbered
\* slot whose used bit was clear when the call was made, wherever the node
\* goes in the list order, and that slot is below K whenever len < K.
C34_FreeSlotBelowK == len < K => LowestClear(used) < K

C34_Step ==
    (lcall'.op \in InsertOps /\ lret'.kind = "Ok") =>
        LET s == LowestClear(used)
        IN  /\ s < K
            /\ ~nodes[s].init
            /\ nodes'[s].init
            /\ nodes'[s].value = lcall'.value
            /\ used' = used + 2 ^ s
            /\ \A i \in Slots \ {s} : nodes'[i].init = nodes[i].init

C34_LowestFreeSlot == []C34_FreeSlotBelowK /\ [][C34_Step]_vars

\* insert_tail put the third node of the list, its tail, in slot 0
C34_Witness ==
    /\ lcall.op = "insert_tail"
    /\ lret.kind = "Ok"
    /\ len = 3
    /\ tail = Some(0)

\* C35: in every reachable state, the index field of the node stored in a
\* live slot s is s, whatever insert, remove, sort_by and iter_and_compute
\* calls were made.
C35_IndexIsSlot ==
    \A s \in Slots : Bit(used, s) = 1 =>
        nodes[s].init /\ nodes[s].index = s

\* a list sorted after a removal: slots 0, 2 and 3 are live, slot 3 is the
\* head
C35_Witness ==
    /\ lcall.op = "sort_by"
    /\ used = 13
    /\ head = Some(3)

\* C36: sort_by changes only the prev and next links of the nodes and head
\* and tail: every value stays in the slot it was in, and used, len and
\* every node's index field are unchanged.
C36_Step ==
    lcall'.op = "sort_by" =>
        /\ lret'.kind = "Ok"
        /\ used' = used
        /\ len' = len
        /\ \A i \in Slots :
               nodes'[i] = [nodes[i] EXCEPT !.prev = nodes'[i].prev,
                                            !.next = nodes'[i].next]

C36_SortFrame == [][C36_Step]_vars

\* a sort that changed the order: the head, slot 0 before, is now slot 1
C36_Witness ==
    /\ lcall.op = "sort_by"
    /\ lcall.cmp = "natural"
    /\ len = 2
    /\ head = Some(1)
    /\ nodes[0].value = 2
    /\ nodes[1].value = 1

\* C37: an insert_head, insert_tail, insert_after, insert_before, get or
\* remove call that returns IndexOutOfRange or ListIsFull leaves len, used,
\* head, tail and every node as they were.
C37_Step ==
    (/\ lcall'.op \in InsertOps \cup {"get", "remove"}
     /\ lret'.kind \in {"IndexOutOfRange", "ListIsFull"}) =>
        /\ len' = len
        /\ used' = used
        /\ head' = head
        /\ tail' = tail
        /\ nodes' = nodes

C37_ErrorFrame == [][C37_Step]_vars

\* insert_after returned ListIsFull on a full list
C37_Witness ==
    /\ lcall.op = "insert_after"
    /\ lret.kind = "ListIsFull"
    /\ len = K

\* ========================================================================
\* Properties of the array, vector and option functions
\* ========================================================================

\* s is ascending under the comparator c
Ascending(s, c) ==
    \A i \in 1 .. Len(s) - 1 : compare(c, s[i], s[i + 1]) # "Greater"

\* the place, counted from 0, of x[i] in the merge of x and y that puts x's
\* element first when two compare Equal: the elements of x before it and
\* the elements of y that are Less
RankOfFirst(x, y, c, i) ==
    (i - 1) + Cardinality({j \in 1 .. Len(y) : compare(c, y[j], x[i]) = "Less"})

\* the place of y[j] in that merge: the elements of y before it and the
\* elements of x that are not Greater
RankOfSecond(x, y, c, j) ==
    (j - 1) + Cardinality({i \in 1 .. Len(x) :
                               compare(c, x[i], y[j]) # "Greater"})

\* C32: keep_lowest_by on two ascending arrays of one length and
\* keep_lowest_vec_by on two ascending vectors of any lengths return without
\* indexing out of bounds and leave in the first sequence, in ascending
\* order, the len(first) first elements of the merge of the two that keeps
\* duplicates and puts the first sequence's element before the second's
\* when they compare Equal.
C32_KeepsLowest ==
    (/\ ccall.op \in {"keep_lowest_by", "keep_lowest_vec_by"}
     /\ Ascending(ccall.s1, ccall.compare)
     /\ Ascending(ccall.s2, ccall.compare)) =>
        LET x == ccall.s1
            y == ccall.s2
            c == ccall.compare
        IN  /\ ccall.kind = "Ok"
            /\ Len(s1) = Len(x)
            /\ Ascending(s1, c)
            /\ \A i \in 1 .. Len(x) :
                   RankOfFirst(x, y, c, i) < Len(x) =>
                       s1[RankOfFirst(x, y, c, i) + 1] = x[i]
            /\ \A j \in 1 .. Len(y) :
                   RankOfSecond(x, y, c, j) < Len(x) =>
                       s1[RankOfSecond(x, y, c, j) + 1] = y[j]

\* a longer second vector: 1 is kept before the 2 it compares Equal to, and
\* the second vector's first 2 comes before the 3
C32_Witness ==
    /\ ccall.op = "keep_lowest_vec_by"
    /\ ccall.compare = "by_key"
    /\ ccall.s1 = <<1, 3>>
    /\ ccall.s2 = <<2, 2, 3>>
    /\ s1 = <<1, 2>>

ReverseOrdering(o) ==
    IF o = "Less" THEN "Greater" ELSE IF o = "Greater" THEN "Less" ELSE o

\* compare_t(x, y) is the reverse of compare_t(y, x) for all values
Antisymmetric(c) ==
    \A x, y \in OptionValues : compare_t(c, x, y) = ReverseOrdering(compare_t(c, y, x))

\* the same function applied to the swapped operands
Swapped ==
    IF ccall.op = "put_option_first"
    THEN put_option_first(opt_b, opt_a, ccall.compare_t)
    ELSE put_option_last(opt_b, opt_a, ccall.compare_t)

\* C33: put_option_first orders None before every Some and put_option_last
\* after every Some; both return Equal for (None, None) and compare_t(x, y)
\* for (Some x, Some y), and the result for (a, b) is the reverse of the
\* result for (b, a) whenever compare_t has that property.
C33_OptionOrder ==
    ccall.op \in {"put_option_first", "put_option_last"} =>
        LET first == ccall.op = "put_option_first"
        IN  /\ opt_a = None /\ opt_b = None => ccall.ret = "Equal"
            /\ opt_a = None /\ opt_b # None =>
                   ccall.ret = IF first THEN "Less" ELSE "Greater"
            /\ opt_a # None /\ opt_b = None =>
                   ccall.ret = IF first THEN "Greater" ELSE "Less"
            /\ opt_a # None /\ opt_b # None =>
                   ccall.ret = compare_t(ccall.compare_t, unwrap(opt_a),
                                         unwrap(opt_b))
            /\ Antisymmetric(ccall.compare_t) =>
                   ccall.ret = ReverseOrdering(Swapped)

\* put_option_last(None, Some(4), reverse) is Greater
C33_Witness ==
    /\ ccall.op = "put_option_last"
    /\ ccall.compare_t = "reverse"
    /\ opt_a = None
    /\ opt_b = Some(4)
    /\ ccall.ret = "Greater"

====
